---- MODULE Spec2Model ----
(***************************************************************************)
(* Model of the footy_score application: scoring rules, validators, the    *)
(* matches repository and the post-match service.                          *)
(*                                                                         *)
(* Python values are represented as follows.                               *)
(*   - int            : a TLA+ integer (every int-typed position of the    *)
(*                      model holds a Python int at the call sites).       *)
(*   - str / None     : a TLA+ string; None in a string-typed position is  *)
(*                      the token NoneStr.                                 *)
(*   - date / None    : a record [year, day]; None is NoDate.              *)
(*   - list           : a sequence.                                        *)
(*   - ORM object/dict: a record with the attribute names of the source.   *)
(***************************************************************************)
EXTENDS Integers, Sequences, FiniteSets, TLC

VARIABLES
    matches,    \* the matches table with its quarters and player_stats rows: id -> row
    ret,        \* outcome of the last repository / service / page call
    vin,        \* SpecV: the candidate match handed to the validators
    vout,       \* SpecV: what the validator returned
    tables,     \* SpecTx, SpecUoW: the committed rows of matches, quarters, player_stats
    sess,       \* SpecTx, SpecUoW: the open sessions, each with its uncommitted work
    backend,    \* SpecTx: the database behind DATABASE_URL
    st,         \* SpecPages, SpecAuth: st.session_state and what the script did
    users,      \* SpecUsers, SpecAuth: the users table: id -> row
    players     \* SpecPlayers: the players table: id -> row

vars == <<matches, ret, vin, vout, tables, sess, backend, st, users, players>>

\* the variables of the repository, service and validator specifications
repovars == <<matches, ret, vin, vout>>
\* the variables of the session and page specifications
dbvars == <<tables, sess, backend, st, users, players>>
\* the tables of users_repo and players_repo
uservars == <<users, players>>

-----------------------------------------------------------------------------
(* Bounds of the model *)

MaxMatches == 2      \* rows of the matches table
MaxQuarters == 2     \* quarters of a candidate match (validators)
MaxRows == 2         \* player-stat rows of a candidate match (validators)
MaxSeqLen == 5       \* quarters of a candidate list of quarter numbers
MaxNames == 4        \* rows of a candidate list of player names
MaxScore == 7        \* goals or behinds given to the point computations
MaxUsers == 2        \* rows of the users table
MaxClock == 8100     \* last instant of the clock of a session, in seconds
MaxBurst == 600      \* seconds a user stays active before a long pause
MaxPlayers == 3      \* largest id of the players table

-----------------------------------------------------------------------------
(* Strings *)

NoneStr == "<None>"

\* str.strip() on the strings of the model
Strip(s) ==
    CASE s = " A "      -> "A"
      [] s = "  "       -> ""
      [] s = " lucas "  -> "lucas"
      [] s = " 2025"    -> "2025"
      [] OTHER          -> s

\* str.lower() on the strings of the model
Lower(s) ==
    CASE s = "Lucas" -> "lucas"
      [] s = "Bob"   -> "bob"
      [] OTHER       -> s

\* s[:max_len]; the only model string longer than a column width is LongName
LongName == "Maximilien-Alexandre-Jean-Baptiste-Christophe-Emmanuel-de-la-Tour-d-Auvergne-Lauraguais"
LongNameCut == "Maximilien-Alexandre-Jean-Baptiste-Christophe-Emmanuel-de-la-Tour-d-Auvergne-Lau"
Truncate(s, max_len) ==
    IF Len(s) <= max_len THEN s
    ELSE IF s = LongName /\ max_len = Len(LongNameCut) THEN LongNameCut
    ELSE s

\* matches_repo._safe_str: None -> None, else strip, cut, and "" -> None
RepoSafeStr(x, max_len) ==
    IF x = NoneStr THEN NoneStr
    ELSE LET s == Truncate(Strip(x), max_len) IN IF s = "" THEN NoneStr ELSE s

\* match_service._safe_str: None -> None, else strip, and "" -> None
SvcSafeStr(x) ==
    IF x = NoneStr THEN NoneStr
    ELSE LET s == Strip(x) IN IF s = "" THEN NoneStr ELSE s

\* Python's `a or b` on optional strings (None and "" are falsy)
StrOr(a, b) == IF a = NoneStr \/ a = "" THEN b ELSE a

\* validators._non_empty_str
NonEmptyStr(s) == s # NoneStr /\ Strip(s) # ""

\* int(str(season).strip()): [ok |-> FALSE] stands for ValueError
ParseInt(s) ==
    CASE Strip(s) = "2025" -> [ok |-> TRUE, v |-> 2025]
      [] Strip(s) = "2024" -> [ok |-> TRUE, v |-> 2024]
      [] Strip(s) = "25"   -> [ok |-> TRUE, v |-> 25]
      [] OTHER             -> [ok |-> FALSE, v |-> 0]

\* len(s) == 4 and s.isdigit()
IsYYYY(s) == Len(s) = 4 /\ ParseInt(s).ok

-----------------------------------------------------------------------------
(* Dates *)

NoDate == [none |-> TRUE]
Date(y, d) == [year |-> y, day |-> d]
DateLT(a, b) == a.year < b.year \/ (a.year = b.year /\ a.day < b.day)
DateLE(a, b) == a = b \/ DateLT(a, b)
\* date.today() of the run
Today == Date(2025, 2)

-----------------------------------------------------------------------------
(* Sequences *)

RECURSIVE SumSeq(_)
SumSeq(s) == IF s = <<>> THEN 0 ELSE Head(s) + SumSeq(Tail(s))

RECURSIVE Flatten(_)
Flatten(ss) == IF ss = <<>> THEN <<>> ELSE Head(ss) \o Flatten(Tail(ss))

Range(s) == {s[i] : i \in DOMAIN s}

Map(s, Op(_)) == [i \in DOMAIN s |-> Op(s[i])]

\* the distinct elements of s in order of first occurrence (dict / Counter key order)
RECURSIVE Dedup(_)
Dedup(s) ==
    IF s = <<>> THEN <<>>
    ELSE LET r == Dedup(SubSeq(s, 1, Len(s) - 1))
             x == s[Len(s)]
         IN IF x \in Range(r) THEN r ELSE Append(r, x)

Count(s, x) == Cardinality({i \in DOMAIN s : s[i] = x})

-----------------------------------------------------------------------------
(* core/scoring.py *)

points_of(goals, behinds) == goals * 6 + behinds

\* mutant: a goal and a behind change places
calc_points_Swapped(goals, behinds) == behinds * 6 + goals

\* core/models.py: the helper of the score inputs (ui/inputs.py)
calc_points(goals, behinds) == goals * 6 + behinds

sum_quarters_match(quarters) ==
    [home |-> <<SumSeq([i \in DOMAIN quarters |-> quarters[i].home_goals]),
                SumSeq([i \in DOMAIN quarters |-> quarters[i].home_behinds]),
                SumSeq([i \in DOMAIN quarters |-> quarters[i].home_points])>>,
     away |-> <<SumSeq([i \in DOMAIN quarters |-> quarters[i].away_goals]),
                SumSeq([i \in DOMAIN quarters |-> quarters[i].away_behinds]),
                SumSeq([i \in DOMAIN quarters |-> quarters[i].away_points])>>]

compute_totals_from_quarters(m) ==
    IF m.quarters = <<>> THEN m
    ELSE LET sums == sum_quarters_match(m.quarters)
         IN [m EXCEPT !.total_home_points = sums.home[3],
                      !.total_away_points = sums.away[3]]

-----------------------------------------------------------------------------
(* core/validators.py *)

MAX_GOALS_PER_QUARTER == 20
MAX_BEHINDS_PER_QUARTER == 25
MAX_POINTS_PER_QUARTER == 6 * MAX_GOALS_PER_QUARTER + MAX_BEHINDS_PER_QUARTER
DISALLOW_FUTURE_DATES == FALSE
WARN_IF_SEASON_MISMATCH_WITH_DATE == TRUE
EXPECT_4_QUARTERS == TRUE
EXPECTED_QUART_NUMBERS == {1, 2, 3, 4}
VENUE_MAX == 120

\* ValidationIssue(code, message, severity, field_name, context); the message text is
\* kept as the data it is formatted from: ref (quarter number or row index) and names
ValidationIssue(code, severity, field_name, ref, names) ==
    [code |-> code, severity |-> severity, field_name |-> field_name,
     ref |-> ref, names |-> names]

Issue(code, severity, field_name) == ValidationIssue(code, severity, field_name, 0, {})

_is_non_negative_int(x) == x >= 0

_safe_int(x, default) == x

\* mutant: a team name is always taken for the home side
_declared_points_HomeOnly(match, team_side, team_name) ==
    IF team_side \in {"home", "away"}
    THEN [some |-> TRUE,
          v |-> IF team_side = "home" THEN match.total_home_points
                ELSE match.total_away_points]
    ELSE IF NonEmptyStr(team_name) /\ team_name \in {match.home_club, match.away_club}
    THEN [some |-> TRUE, v |-> match.total_home_points]
    ELSE [some |-> FALSE, v |-> 0]

_declared_points(match, team_side, team_name) ==
    IF team_side \in {"home", "away"}
    THEN [some |-> TRUE,
          v |-> IF team_side = "home" THEN _safe_int(match.total_home_points, 0)
                ELSE _safe_int(match.total_away_points, 0)]
    ELSE IF NonEmptyStr(team_name)
    THEN IF match.home_club = team_name
         THEN [some |-> TRUE, v |-> _safe_int(match.total_home_points, 0)]
         ELSE IF match.away_club = team_name
         THEN [some |-> TRUE, v |-> _safe_int(match.total_away_points, 0)]
         ELSE [some |-> FALSE, v |-> 0]
    ELSE [some |-> FALSE, v |-> 0]

\* mutant: a season that is not four digits is an error
validate_match_structure_FormatIsError(match) ==
    (IF ~NonEmptyStr(match.home_club)
     THEN <<Issue("match.home_club.missing", "error", "home_club")>> ELSE <<>>)
    \o (IF ~NonEmptyStr(match.away_club)
        THEN <<Issue("match.away_club.missing", "error", "away_club")>> ELSE <<>>)
    \o (IF ~_is_non_negative_int(match.total_home_points)
        THEN <<Issue("match.total_home_points.invalid", "error", "total_home_points")>> ELSE <<>>)
    \o (IF ~_is_non_negative_int(match.total_away_points)
        THEN <<Issue("match.total_away_points.invalid", "error", "total_away_points")>> ELSE <<>>)
    \o (IF match.date = NoDate
        THEN <<Issue("match.date.missing", "error", "date")>> ELSE <<>>)
    \o (IF ~NonEmptyStr(match.season_id)
        THEN <<Issue("match.season_id.missing", "error", "season_id")>>
        ELSE IF ~IsYYYY(Strip(match.season_id))
        THEN <<Issue("match.season_id.format", "error", "season_id")>> ELSE <<>>)
    \o (IF match.venue # NoneStr /\ Len(match.venue) > VENUE_MAX
        THEN <<Issue("match.venue.too_long", "warning", "venue")>> ELSE <<>>)

validate_match_structure(match) ==
    (IF ~NonEmptyStr(match.home_club)
     THEN <<Issue("match.home_club.missing", "error", "home_club")>> ELSE <<>>)
    \o (IF ~NonEmptyStr(match.away_club)
        THEN <<Issue("match.away_club.missing", "error", "away_club")>> ELSE <<>>)
    \o (IF ~_is_non_negative_int(match.total_home_points)
        THEN <<Issue("match.total_home_points.invalid", "error", "total_home_points")>> ELSE <<>>)
    \o (IF ~_is_non_negative_int(match.total_away_points)
        THEN <<Issue("match.total_away_points.invalid", "error", "total_away_points")>> ELSE <<>>)
    \o (IF match.date = NoDate
        THEN <<Issue("match.date.missing", "error", "date")>> ELSE <<>>)
    \o (IF ~NonEmptyStr(match.season_id)
        THEN <<Issue("match.season_id.missing", "error", "season_id")>>
        ELSE IF ~IsYYYY(Strip(match.season_id))
        THEN <<Issue("match.season_id.format", "warning", "season_id")>> ELSE <<>>)
    \o (IF match.venue # NoneStr /\ Len(match.venue) > VENUE_MAX
        THEN <<Issue("match.venue.too_long", "warning", "venue")>> ELSE <<>>)

validate_date_and_season(match) ==
    (IF match.date # NoDate /\ DateLT(Today, match.date)
     THEN <<Issue("match.date.future",
                  IF DISALLOW_FUTURE_DATES THEN "error" ELSE "warning", "date")>>
     ELSE <<>>)
    \o (IF WARN_IF_SEASON_MISMATCH_WITH_DATE /\ match.date # NoDate
           /\ NonEmptyStr(match.season_id)
           /\ ParseInt(match.season_id).ok
           /\ match.date.year # ParseInt(match.season_id).v
        THEN <<Issue("match.season_id.mismatch_with_date", "warning", "season_id")>>
        ELSE <<>>)

\* mutant: the away formula is checked against the home goals and behinds
QuarterValueIssues_AwayUsesHome(q) ==
    Flatten([i \in 1..6 |->
        IF <<q.home_goals, q.home_behinds, q.home_points,
             q.away_goals, q.away_behinds, q.away_points>>[i] < 0
        THEN <<ValidationIssue("quarter.field.invalid", "error",
                   <<"home_goals", "home_behinds", "home_points",
                     "away_goals", "away_behinds", "away_points">>[i], q.q, {})>>
        ELSE <<>>])
    \o (IF q.home_points # points_of(q.home_goals, q.home_behinds)
        THEN <<ValidationIssue("quarter.home_points.formula", "error", "home_points", q.q, {})>>
        ELSE <<>>)
    \o (IF q.away_points # points_of(q.home_goals, q.home_behinds)
        THEN <<ValidationIssue("quarter.away_points.formula", "error", "away_points", q.q, {})>>
        ELSE <<>>)

\* the issues of one quarter, in the order the loop body appends them
QuarterValueIssues(q) ==
    LET fields == << <<"home_goals", q.home_goals>>, <<"home_behinds", q.home_behinds>>,
                     <<"home_points", q.home_points>>, <<"away_goals", q.away_goals>>,
                     <<"away_behinds", q.away_behinds>>, <<"away_points", q.away_points>> >>
        hg == _safe_int(q.home_goals, 0)
        hb == _safe_int(q.home_behinds, 0)
        hp == _safe_int(q.home_points, 0)
        ag == _safe_int(q.away_goals, 0)
        ab == _safe_int(q.away_behinds, 0)
        ap == _safe_int(q.away_points, 0)
    IN Flatten([i \in 1..6 |->
            IF ~_is_non_negative_int(fields[i][2])
            THEN <<ValidationIssue("quarter.field.invalid", "error", fields[i][1], q.q, {})>>
            ELSE <<>>])
       \o (IF hp # points_of(hg, hb)
           THEN <<ValidationIssue("quarter.home_points.formula", "error", "home_points", q.q, {})>>
           ELSE <<>>)
       \o (IF ap # points_of(ag, ab)
           THEN <<ValidationIssue("quarter.away_points.formula", "error", "away_points", q.q, {})>>
           ELSE <<>>)
       \o (IF hg > MAX_GOALS_PER_QUARTER \/ ag > MAX_GOALS_PER_QUARTER
           THEN <<ValidationIssue("quarter.goals.unusually_high", "warning", NoneStr, q.q, {})>>
           ELSE <<>>)
       \o (IF hb > MAX_BEHINDS_PER_QUARTER \/ ab > MAX_BEHINDS_PER_QUARTER
           THEN <<ValidationIssue("quarter.behinds.unusually_high", "warning", NoneStr, q.q, {})>>
           ELSE <<>>)
       \o (IF hp > MAX_POINTS_PER_QUARTER \/ ap > MAX_POINTS_PER_QUARTER
           THEN <<ValidationIssue("quarter.points.unusually_high", "warning", NoneStr, q.q, {})>>
           ELSE <<>>)

validate_quarter_values(quarters) ==
    Flatten([i \in DOMAIN quarters |-> QuarterValueIssues(quarters[i])])

\* mutant: a duplicate warning for every occurrence of a repeated number
validate_quarter_sequence_PerOccurrence(quarters) ==
    IF quarters = <<>> THEN <<>>
    ELSE LET numbers == [i \in DOMAIN quarters |-> quarters[i].q]
             got == Range(numbers)
             dups == SelectSeq(numbers, LAMBDA n : Count(numbers, n) > 1)
         IN [i \in DOMAIN dups |->
                ValidationIssue("quarters.duplicate_number", "warning", "q", dups[i], {})]
            \o (IF EXPECT_4_QUARTERS /\ EXPECTED_QUART_NUMBERS \ got # {}
                THEN <<Issue("quarters.missing", "warning", NoneStr)>> ELSE <<>>)
            \o (IF EXPECT_4_QUARTERS /\ got \ EXPECTED_QUART_NUMBERS # {}
                THEN <<Issue("quarters.unexpected", "warning", NoneStr)>> ELSE <<>>)

validate_quarter_sequence(quarters) ==
    IF quarters = <<>> THEN <<>>
    ELSE LET numbers == [i \in DOMAIN quarters |-> quarters[i].q]
             keys == Dedup(numbers)
             got == Range(keys)
             dups == SelectSeq(keys, LAMBDA n : Count(numbers, n) > 1)
         IN [i \in DOMAIN dups |->
                ValidationIssue("quarters.duplicate_number", "warning", "q", dups[i], {})]
            \o (IF EXPECT_4_QUARTERS /\ EXPECTED_QUART_NUMBERS \ got # {}
                THEN <<Issue("quarters.missing", "warning", NoneStr)>> ELSE <<>>)
            \o (IF EXPECT_4_QUARTERS /\ got \ EXPECTED_QUART_NUMBERS # {}
                THEN <<Issue("quarters.unexpected", "warning", NoneStr)>> ELSE <<>>)

\* mutant: the away sum is compared with the declared home total
validate_match_quarters_vs_totals_AwayVsHome(match) ==
    IF match.quarters = <<>> THEN <<>>
    ELSE LET sums == sum_quarters_match(match.quarters)
         IN (IF sums.home[3] # match.total_home_points
             THEN <<Issue("match.totals.home_mismatch", "error", "total_home_points")>>
             ELSE <<>>)
            \o (IF sums.away[3] # match.total_home_points
                THEN <<Issue("match.totals.away_mismatch", "error", "total_away_points")>>
                ELSE <<>>)

validate_match_quarters_vs_totals(match) ==
    IF match.quarters = <<>> THEN <<>>
    ELSE LET sums == sum_quarters_match(match.quarters)
             hp == sums.home[3]
             ap == sums.away[3]
         IN (IF hp # _safe_int(match.total_home_points, 0)
             THEN <<Issue("match.totals.home_mismatch", "error", "total_home_points")>>
             ELSE <<>>)
            \o (IF ap # _safe_int(match.total_away_points, 0)
                THEN <<Issue("match.totals.away_mismatch", "error", "total_away_points")>>
                ELSE <<>>)

\* the issues of player-stat row i, in the order the loop body appends them
PlayerRowIssues(ps, i) ==
    LET fields == << <<"goals", ps.goals>>, <<"behinds", ps.behinds>>, <<"points", ps.points>> >>
        g == _safe_int(ps.goals, 0)
        b == _safe_int(ps.behinds, 0)
        p == _safe_int(ps.points, 0)
    IN (IF ~NonEmptyStr(ps.player_name)
        THEN <<ValidationIssue("player.name.missing", "warning", "player_name", i, {})>>
        ELSE <<>>)
       \o Flatten([k \in 1..3 |->
            IF ~_is_non_negative_int(fields[k][2])
            THEN <<ValidationIssue("player.field.invalid", "error", fields[k][1], i, {})>>
            ELSE <<>>])
       \o (IF p # points_of(g, b)
           THEN <<ValidationIssue("player.points.formula", "error", "points", i, {})>>
           ELSE <<>>)

validate_player_rows(player_stats) ==
    Flatten([i \in DOMAIN player_stats |-> PlayerRowIssues(player_stats[i], i)])

\* mutant: the names are compared as typed, neither trimmed nor lower-cased
validate_duplicate_players_RawNames(player_stats) ==
    LET all == [i \in DOMAIN player_stats |-> StrOr(player_stats[i].player_name, "")]
        keys == SelectSeq(all, LAMBDA k : k # "")
        dup_names == {n \in Range(keys) : Count(keys, n) > 1}
    IN IF dup_names # {}
       THEN <<ValidationIssue("players.duplicates", "warning", "player_name", 0, dup_names)>>
       ELSE <<>>

validate_duplicate_players(player_stats) ==
    LET all == [i \in DOMAIN player_stats |->
                    Lower(Strip(StrOr(player_stats[i].player_name, "")))]
        keys == SelectSeq(all, LAMBDA k : k # "")
        dup_names == {n \in Range(keys) : Count(keys, n) > 1}
    IN IF dup_names # {}
       THEN <<ValidationIssue("players.duplicates", "warning", "player_name", 0, dup_names)>>
       ELSE <<>>

validate_players_vs_declared(match, team_side, team_name) ==
    IF match.player_stats = <<>> THEN <<>>
    ELSE LET total_players ==
                 SumSeq([i \in DOMAIN match.player_stats |->
                            _safe_int(match.player_stats[i].points, 0)])
             declared == _declared_points(match, team_side, team_name)
         IN IF ~declared.some
            THEN <<Issue("players.sum_vs_declared.skipped", "warning", "player_stats")>>
            ELSE IF total_players # declared.v
            THEN <<ValidationIssue("players.sum_vs_declared", "error", "player_stats",
                                   total_players, {})>>
            ELSE <<>>

\* every issue the passes of validate_match produce, in order
ValidateMatchIssues(match, team_side, team_name) ==
    validate_match_structure(match)
    \o validate_date_and_season(match)
    \o (IF match.quarters # <<>>
        THEN validate_quarter_values(match.quarters)
             \o validate_quarter_sequence(match.quarters)
             \o validate_match_quarters_vs_totals(match)
        ELSE <<>>)
    \o (IF match.player_stats # <<>>
        THEN validate_player_rows(match.player_stats)
             \o validate_duplicate_players(match.player_stats)
             \o validate_players_vs_declared(match, team_side, team_name)
        ELSE <<>>)

\* _split_issues: the issues appended to warnings_out, and those appended to errors_out
SplitWarnings(issues) == SelectSeq(issues, LAMBDA it : it.severity = "warning")
SplitErrors(issues) == SelectSeq(issues, LAMBDA it : it.severity # "warning")

\* mutant: ok requires that there is no issue at all, so that warnings block too
validate_match_WarningsBlock(match, team_side, team_name) ==
    LET issues == ValidateMatchIssues(match, team_side, team_name)
    IN [ok |-> Len(issues) = 0, errors |-> SplitErrors(issues),
        warnings |-> SplitWarnings(issues)]

validate_match(match, team_side, team_name) ==
    LET issues == ValidateMatchIssues(match, team_side, team_name)
        errors == SplitErrors(issues)
        warnings == SplitWarnings(issues)
    IN [ok |-> Len(errors) = 0, errors |-> errors, warnings |-> warnings]

\* str(issue): the prefix, the code and the field name that the text is built from
IssueStr(it) ==
    <<IF it.severity = "warning" THEN "warn" ELSE "err", it.code, it.field_name>>

issues_as_strings(issues) == [i \in DOMAIN issues |-> IssueStr(issues[i])]

-----------------------------------------------------------------------------
(* Inputs of the validators (SpecV) *)

Quarter(q, hg, hb, hp, ag, ab, ap) ==
    [q |-> q, home_goals |-> hg, home_behinds |-> hb, home_points |-> hp,
     away_goals |-> ag, away_behinds |-> ab, away_points |-> ap]

\* player_stats.player_id is nullable: the id of a row that references no player
NoPlayer == 0

PlayerStat(name, g, b, p) ==
    [player_id |-> NoPlayer, player_name |-> name, goals |-> g, behinds |-> b, points |-> p]

Match(season_id, date, venue, home_club, away_club, thp, tap, quarters, player_stats) ==
    [season_id |-> season_id, date |-> date, venue |-> venue,
     home_club |-> home_club, away_club |-> away_club,
     total_home_points |-> thp, total_away_points |-> tap,
     quarters |-> quarters, player_stats |-> player_stats]

DefaultMatch == Match("2025", Date(2025, 1), NoneStr, "A", "B", 0, 0, <<>>, <<>>)

SeqsUpTo(S, n) == UNION {[1..k -> S] : k \in 0..n}

\* a venue of 121 characters
LongVenue == "Stade-municipal-Ernest-Wallon-annexe-numero-trois-terrain-synthetique-des-Sept-Deniers-avenue-des-Etats-Unis-a-Toulouse-1"

\* one side of a quarter: goals, behinds, points
SideGoals == {-1, 0, 3, 21}
SideBehinds == {-1, 2, 26}
SidePoints == {-1, 19, 20, 146}

\* every single quarter over the side values
WideQuarters ==
    {Quarter(1, hg, hb, hp, ag, ab, ap) :
        hg \in SideGoals, hb \in SideBehinds, hp \in SidePoints,
        ag \in SideGoals, ab \in SideBehinds, ap \in SidePoints}

\* a few quarters for the lists of several quarters
SmallQuarters ==
    {Quarter(1, 3, 2, 20, 3, 0, 18), Quarter(1, 3, 2, 19, 0, 0, 0),
     Quarter(2, 0, 0, 0, 3, 2, 20),  Quarter(2, 1, -1, 5, 21, 0, 126),
     Quarter(5, 0, 0, 0, 0, 2, 3)}

SmallRows ==
    {PlayerStat("Lucas", 3, 2, 20), PlayerStat(" lucas ", 1, 1, 7),
     PlayerStat("Bob", 1, 1, 8), PlayerStat("", 0, -1, -1)}

TotalValues == {0, 20, 27, 38}

CandQuarterValues ==
    {[DefaultMatch EXCEPT !.quarters = <<q>>] : q \in WideQuarters}

CandQuartersTotals ==
    {[DefaultMatch EXCEPT !.quarters = qs, !.total_home_points = th, !.total_away_points = ta] :
        qs \in SeqsUpTo(SmallQuarters, MaxQuarters), th \in TotalValues, ta \in TotalValues}

CandPlayers ==
    {[DefaultMatch EXCEPT !.player_stats = ps, !.away_club = away,
                          !.total_home_points = th, !.total_away_points = ta] :
        ps \in SeqsUpTo(SmallRows, MaxRows), away \in {"A", "B"},
        th \in {20, 27}, ta \in {20, 30}}

CandStructure ==
    {Match(s, d, v, h, a, th, ta, <<>>, <<>>) :
        s \in {"2025", "2024", "25", "S1", " 2025", "", NoneStr},
        d \in {NoDate, Date(2025, 1), Date(2024, 1), Date(2025, 3)},
        v \in {NoneStr, "Stade", LongVenue},
        h \in {"A", "  ", NoneStr}, a \in {"B", ""},
        th \in {-1, 0}, ta \in {-1, 20}}

CandMixed ==
    {Match(s, Date(2025, 3), NoneStr, "A", "B", 20, ta, qs, ps) :
        s \in {"2025", "S1"}, ta \in {18, 20},
        qs \in SeqsUpTo(SmallQuarters, MaxQuarters), ps \in SeqsUpTo(SmallRows, MaxRows)}

\* lists of up to MaxSeqLen quarters over the numbers 1..5, all values zero
CandSequence ==
    {[DefaultMatch EXCEPT !.quarters = [i \in DOMAIN ns |-> Quarter(ns[i], 0, 0, 0, 0, 0, 0)]] :
        ns \in SeqsUpTo(1..5, MaxSeqLen)}

\* lists of up to MaxNames player rows over a few names, all values zero
CandNames ==
    {[DefaultMatch EXCEPT !.player_stats = [i \in DOMAIN ns |-> PlayerStat(ns[i], 0, 0, 0)]] :
        ns \in SeqsUpTo({"Lucas", " lucas ", "Bob", "", NoneStr}, MaxNames)}

Candidates == CandQuarterValues \cup CandQuartersTotals \cup CandPlayers
              \cup CandStructure \cup CandMixed \cup CandSequence \cup CandNames

\* (team_side, team_name) as the callers pass them: a side, a team name, or neither
TeamParams ==
    {<<side, NoneStr>> : side \in {NoneStr, "home", "away"}}
    \cup {<<NoneStr, name>> : name \in {"A", "B", "C"}}

NoOut == [fn |-> "none"]
\* a caller's user_ctx: a dict with is_admin and team_name, or None
Ctx(is_admin, team_name) == [none |-> FALSE, is_admin |-> is_admin, team_name |-> team_name]
NoCtx == [none |-> TRUE, is_admin |-> FALSE, team_name |-> NoneStr]

\* the last repository call: its name, caller and match id, the value it returned and
\* the exception it raised ("" when it returned)
NoRet == [op |-> "none", ctx |-> NoCtx, id |-> 0, value |-> FALSE, raised |-> ""]
NoMatches == <<>>
NoUsers == <<>>
NoPlayers == <<>>

\* the three tables as stored: the matches by id, and the quarters and player_stats rows
\* by the match_id they carry, in the order of their ids
NoTables ==
    [matches |-> <<>>,
     quarters |-> [id \in 1..MaxMatches |-> <<>>],
     player_stats |-> [id \in 1..MaxMatches |-> <<>>]]

\* the sessions that may be open at the same time
Sessions == {1, 2}

\* a session that SessionLocal() has not created yet
NoSession ==
    [pc |-> "idle", op |-> "none", readonly |-> FALSE, base |-> NoTables, work |-> NoTables,
     match_id |-> 0, stats_rows |-> <<>>, side |-> NoneStr, ctx |-> NoCtx, m |-> DefaultMatch,
     deleted |-> FALSE, waits |-> 0, body |-> "", value |-> FALSE, raised |-> "",
     closed |-> FALSE]

NoSessions == [s \in Sessions |-> NoSession]

\* an empty st.session_state before any page has run: no user, no token, no widget
NoSt ==
    [page |-> "none", auth |-> FALSE, csrf_token |-> NoneStr,
     widgets |-> [k \in {"csrf_save", "csrf-upd-1", "csrf-ps-1", "csrf_create", "csrf_team",
                         "csrf_admin", "csrf_pwd"} |-> NoneStr],
     last |-> [clicked |-> "none", submitted |-> NoneStr, expected |-> NoneStr,
               called |-> <<>>]]

-----------------------------------------------------------------------------
(* SpecV: the validators applied to a candidate match *)

InitV ==
    /\ vin \in Candidates
    /\ vout = NoOut
    /\ matches = NoMatches
    /\ ret = NoRet
    /\ tables = NoTables
    /\ sess = NoSessions
    /\ backend = "sqlite"
    /\ st = NoSt
    /\ users = NoUsers
    /\ players = NoPlayers

CallValidateMatch ==
    \E tp \in TeamParams :
        /\ vout = NoOut
        /\ vout' = [fn |-> "validate_match", team_side |-> tp[1], team_name |-> tp[2],
                    res |-> validate_match(vin, tp[1], tp[2])]
        /\ UNCHANGED <<vin, matches, ret, dbvars>>

CallValidateQuarterValues ==
    /\ vout = NoOut
    /\ vout' = [fn |-> "validate_quarter_values", team_side |-> NoneStr, team_name |-> NoneStr,
                res |-> validate_quarter_values(vin.quarters)]
    /\ UNCHANGED <<vin, matches, ret, dbvars>>

CallValidateQuartersVsTotals ==
    /\ vout = NoOut
    /\ vout' = [fn |-> "validate_match_quarters_vs_totals",
                team_side |-> NoneStr, team_name |-> NoneStr,
                res |-> validate_match_quarters_vs_totals(vin)]
    /\ UNCHANGED <<vin, matches, ret, dbvars>>

CallValidatePlayersVsDeclared ==
    \E tp \in TeamParams :
        /\ vout = NoOut
        /\ vout' = [fn |-> "validate_players_vs_declared",
                    team_side |-> tp[1], team_name |-> tp[2],
                    res |-> validate_players_vs_declared(vin, tp[1], tp[2])]
        /\ UNCHANGED <<vin, matches, ret, dbvars>>

CallValidateQuarterSequence ==
    /\ vout = NoOut
    /\ vout' = [fn |-> "validate_quarter_sequence", team_side |-> NoneStr, team_name |-> NoneStr,
                res |-> validate_quarter_sequence(vin.quarters)]
    /\ UNCHANGED <<vin, matches, ret, dbvars>>

CallValidateDuplicatePlayers ==
    /\ vout = NoOut
    /\ vout' = [fn |-> "validate_duplicate_players", team_side |-> NoneStr, team_name |-> NoneStr,
                res |-> validate_duplicate_players(vin.player_stats)]
    /\ UNCHANGED <<vin, matches, ret, dbvars>>

NextV ==
    \/ CallValidateMatch
    \/ CallValidateQuarterValues
    \/ CallValidateQuartersVsTotals
    \/ CallValidatePlayersVsDeclared
    \/ CallValidateQuarterSequence
    \/ CallValidateDuplicatePlayers

SpecV == InitV /\ [][NextV]_vars

-----------------------------------------------------------------------------
(* core/models.py: the constraints of the schema *)

\* PlayerStat.player_id is an optional foreign key; NoPlayer stands for NULL
\* NOT NULL and CHECK constraints of matches, quarters and player_stats, and the
\* UNIQUE constraints (match_id, q), (match_id, player_id), (match_id, player_name)
\* among the children of one match (NULL player ids never clash)
RowConstraintsHold(m) ==
    /\ m.season_id # NoneStr /\ Len(m.season_id) > 0
    /\ m.home_club # NoneStr /\ Len(m.home_club) > 0
    /\ m.away_club # NoneStr /\ Len(m.away_club) > 0
    /\ m.date # NoDate
    /\ m.total_home_points >= 0 /\ m.total_away_points >= 0
    /\ \A i \in DOMAIN m.quarters :
          LET q == m.quarters[i]
          IN /\ q.q >= 0
             /\ q.home_goals >= 0 /\ q.home_behinds >= 0 /\ q.home_points >= 0
             /\ q.away_goals >= 0 /\ q.away_behinds >= 0 /\ q.away_points >= 0
    /\ \A i, j \in DOMAIN m.quarters : i # j => m.quarters[i].q # m.quarters[j].q
    /\ \A i \in DOMAIN m.player_stats :
          LET r == m.player_stats[i]
          IN /\ r.player_name # NoneStr
             /\ r.goals >= 0 /\ r.behinds >= 0 /\ r.points >= 0
    /\ \A i, j \in DOMAIN m.player_stats :
          i # j => /\ m.player_stats[i].player_name # m.player_stats[j].player_name
                   /\ \/ m.player_stats[i].player_id = NoPlayer
                      \/ m.player_stats[i].player_id # m.player_stats[j].player_id

-----------------------------------------------------------------------------
(* core/repos/matches_repo.py *)

SEASON_MAX == 16
CLUB_MAX == 80
NAME_MAX == 80

_user_team_name(user_ctx) == StrOr(user_ctx.team_name, "")

_is_admin(user_ctx) == user_ctx.is_admin

\* mutant: every caller with a team is authorized for every match
_authorized_for_match_AnyTeam(user_ctx, m) ==
    _is_admin(user_ctx) \/ Strip(_user_team_name(user_ctx)) # ""

_authorized_for_match(user_ctx, m) ==
    \/ _is_admin(user_ctx)
    \/ LET team == Strip(_user_team_name(user_ctx))
       IN team # "" /\ team \in {m.home_club, m.away_club}

\* mutant: the filter lets every caller with a team see every match
_apply_user_filter_AnyTeam(user_ctx, m) ==
    _is_admin(user_ctx) \/ Strip(_user_team_name(user_ctx)) # ""

\* the WHERE clause _apply_user_filter adds to a statement, as a predicate on a row
_apply_user_filter(user_ctx, m) ==
    \/ _is_admin(user_ctx)
    \/ LET team == Strip(_user_team_name(user_ctx))
       IN team # "" /\ (m.home_club = team \/ m.away_club = team)

_recompute_match_totals_from_quarters(m) ==
    IF m.quarters = <<>> THEN m
    ELSE [m EXCEPT
            !.total_home_points = SumSeq([i \in DOMAIN m.quarters |-> m.quarters[i].home_points]),
            !.total_away_points = SumSeq([i \in DOMAIN m.quarters |-> m.quarters[i].away_points])]

_recompute_points(goals, behinds) == goals * 6 + behinds

\* the id the database gives a new row (SQLite rowid: one more than the largest)
NewId(db) == IF DOMAIN db = {} THEN 1
             ELSE (CHOOSE i \in DOMAIN db : \A j \in DOMAIN db : j <= i) + 1

Put(db, id, row) == [i \in DOMAIN db \cup {id} |-> IF i = id THEN row ELSE db[i]]
Drop(db, id) == [i \in DOMAIN db \ {id} |-> db[i]]

\* outcome of a repository call: the database after it, the value it returned, and
\* the exception it raised ("" when it returned)
Outcome(db, value, raised) == [db |-> db, value |-> value, raised |-> raised]

insert_match(db, match, user_ctx) ==
    IF ~_is_admin(user_ctx)
       /\ LET team == Strip(_user_team_name(user_ctx))
          IN team = "" \/ team \notin {match.home_club, match.away_club}
    THEN Outcome(db, 0, "PermissionError")
    ELSE LET row == _recompute_match_totals_from_quarters(
                        [match EXCEPT !.season_id = RepoSafeStr(match.season_id, SEASON_MAX),
                                      !.venue = RepoSafeStr(match.venue, VENUE_MAX),
                                      !.home_club = RepoSafeStr(match.home_club, CLUB_MAX),
                                      !.away_club = RepoSafeStr(match.away_club, CLUB_MAX)])
             match_id == NewId(db)
         IN IF RowConstraintsHold(row)
            THEN Outcome(Put(db, match_id, row), match_id, "")
            ELSE Outcome(db, 0, "IntegrityError")

delete_match(db, match_id, user_ctx) ==
    IF match_id \notin DOMAIN db THEN Outcome(db, FALSE, "")
    ELSE IF ~_authorized_for_match(user_ctx, db[match_id]) THEN Outcome(db, FALSE, "")
    ELSE Outcome(Drop(db, match_id), TRUE, "")

\* the unit of work flushes the INSERTs of the new children before the DELETEs of the
\* orphans, so a new child that repeats a unique key of an old one clashes with it
ReplacedChildrenClash(old, new) ==
    \/ \E i \in DOMAIN old.quarters, j \in DOMAIN new.quarters :
          old.quarters[i].q = new.quarters[j].q
    \/ \E i \in DOMAIN old.player_stats, j \in DOMAIN new.player_stats :
          \/ old.player_stats[i].player_name = new.player_stats[j].player_name
          \/ /\ old.player_stats[i].player_id # NoPlayer
             /\ old.player_stats[i].player_id = new.player_stats[j].player_id

update_match(db, match_id, updated_match, user_ctx) ==
    IF match_id \notin DOMAIN db THEN Outcome(db, FALSE, "")
    ELSE IF ~_authorized_for_match(user_ctx, db[match_id]) THEN Outcome(db, FALSE, "")
    ELSE LET existing == db[match_id]
             quarters == [i \in DOMAIN updated_match.quarters |->
                 LET q == updated_match.quarters[i]
                 IN Quarter(q.q, q.home_goals, q.home_behinds,
                            IF q.home_points # 0 THEN q.home_points
                            ELSE q.home_goals * 6 + q.home_behinds,
                            q.away_goals, q.away_behinds,
                            IF q.away_points # 0 THEN q.away_points
                            ELSE q.away_goals * 6 + q.away_behinds)]
             player_stats == [i \in DOMAIN updated_match.player_stats |->
                 LET ps == updated_match.player_stats[i]
                 IN [player_id |-> ps.player_id,
                     player_name |-> StrOr(RepoSafeStr(ps.player_name, NAME_MAX), "Inconnu"),
                     goals |-> ps.goals, behinds |-> ps.behinds,
                     points |-> _recompute_points(ps.goals, ps.behinds)]]
             row == _recompute_match_totals_from_quarters(
                        [existing EXCEPT
                            !.season_id = RepoSafeStr(updated_match.season_id, SEASON_MAX),
                            !.date = updated_match.date,
                            !.venue = RepoSafeStr(updated_match.venue, VENUE_MAX),
                            !.home_club = RepoSafeStr(updated_match.home_club, CLUB_MAX),
                            !.away_club = RepoSafeStr(updated_match.away_club, CLUB_MAX),
                            !.quarters = quarters,
                            !.player_stats = player_stats])
         IN IF RowConstraintsHold(row) /\ ~ReplacedChildrenClash(existing, row)
            THEN Outcome(Put(db, match_id, row), TRUE, "")
            ELSE Outcome(db, FALSE, "IntegrityError")

\* a patch of update_match_fields: an absent (None) string is NoneStr, an absent date
\* NoDate, and given_totals names the totals that are not None
Patch(season_id, date, venue, home_club, away_club, given_totals, thp, tap) ==
    [season_id |-> season_id, date |-> date, venue |-> venue,
     home_club |-> home_club, away_club |-> away_club, given_totals |-> given_totals,
     total_home_points |-> thp, total_away_points |-> tap]

update_match_fields(db, match_id, patch, user_ctx) ==
    IF match_id \notin DOMAIN db THEN Outcome(db, FALSE, "")
    ELSE IF ~_authorized_for_match(user_ctx, db[match_id]) THEN Outcome(db, FALSE, "")
    ELSE LET m == db[match_id]
             m1 == IF patch.season_id # NoneStr
                   THEN [m EXCEPT !.season_id = RepoSafeStr(patch.season_id, SEASON_MAX)] ELSE m
             m2 == IF patch.date # NoDate THEN [m1 EXCEPT !.date = patch.date] ELSE m1
             m3 == IF patch.venue # NoneStr
                   THEN [m2 EXCEPT !.venue = RepoSafeStr(patch.venue, VENUE_MAX)] ELSE m2
             m4 == IF patch.home_club # NoneStr
                   THEN [m3 EXCEPT !.home_club =
                            StrOr(RepoSafeStr(patch.home_club, CLUB_MAX), m3.home_club)]
                   ELSE m3
             m5 == IF patch.away_club # NoneStr
                   THEN [m4 EXCEPT !.away_club =
                            StrOr(RepoSafeStr(patch.away_club, CLUB_MAX), m4.away_club)]
                   ELSE m4
             m6 == IF patch.given_totals # {} /\ m5.quarters = <<>>
                   THEN [m5 EXCEPT
                           !.total_home_points =
                               IF "home" \in patch.given_totals
                               THEN patch.total_home_points ELSE @,
                           !.total_away_points =
                               IF "away" \in patch.given_totals
                               THEN patch.total_away_points ELSE @]
                   ELSE _recompute_match_totals_from_quarters(m5)
         IN IF RowConstraintsHold(m6)
            THEN Outcome(Put(db, match_id, m6), TRUE, "")
            ELSE Outcome(db, FALSE, "IntegrityError")

delete_all_matches(db, user_ctx) ==
    IF ~_is_admin(user_ctx) THEN Outcome(db, 0, "")
    ELSE Outcome(NoMatches, Cardinality(DOMAIN db), "")

\* the PlayerStat rows that replace_player_stats_for_match builds from stats_rows
PlayerStatRows(stats_rows) ==
    [i \in DOMAIN stats_rows |->
        LET r == stats_rows[i]
        IN [player_id |-> r.player_id,
            player_name |->
                StrOr(RepoSafeStr(StrOr(r.player_name, "Inconnu"), NAME_MAX), "Inconnu"),
            goals |-> r.goals, behinds |-> r.behinds,
            points |-> _recompute_points(r.goals, r.behinds)]]

replace_player_stats_for_match(db, match_id, stats_rows, recalc_match_totals_side, user_ctx) ==
    IF match_id \notin DOMAIN db THEN Outcome(db, FALSE, "")
    ELSE IF ~_authorized_for_match(user_ctx, db[match_id]) THEN Outcome(db, FALSE, "")
    ELSE LET m == db[match_id]
             rows == PlayerStatRows(stats_rows)
             total_points == SumSeq([i \in DOMAIN rows |-> rows[i].points])
             m1 == [m EXCEPT !.player_stats = rows]
             m2 == IF recalc_match_totals_side = "home"
                   THEN [m1 EXCEPT !.total_home_points = total_points]
                   ELSE IF recalc_match_totals_side = "away"
                   THEN [m1 EXCEPT !.total_away_points = total_points]
                   ELSE _recompute_match_totals_from_quarters(m1)
         IN IF RowConstraintsHold(m2)
            THEN Outcome(Put(db, match_id, m2), TRUE, "")
            ELSE Outcome(db, FALSE, "IntegrityError")

\* ---- reads: each is a query on the tables, a function of the database ----

_match_to_dict(db, id, with_children) ==
    IF with_children
    THEN [id |-> id, season_id |-> db[id].season_id, date |-> db[id].date,
          venue |-> db[id].venue, home_club |-> db[id].home_club,
          away_club |-> db[id].away_club,
          total_home_points |-> db[id].total_home_points,
          total_away_points |-> db[id].total_away_points,
          quarters |-> SortSeq(db[id].quarters, LAMBDA a, b : a.q < b.q),
          player_stats |-> db[id].player_stats]
    ELSE [id |-> id, season_id |-> db[id].season_id, date |-> db[id].date,
          venue |-> db[id].venue, home_club |-> db[id].home_club,
          away_club |-> db[id].away_club,
          total_home_points |-> db[id].total_home_points,
          total_away_points |-> db[id].total_away_points]

\* ORDER BY date DESC, id DESC: does row a come before row b
Before(db, a, b) ==
    \/ DateLT(db[b].date, db[a].date)
    \/ (db[a].date = db[b].date /\ a > b)

\* the ids of S in the order ORDER BY date DESC, id DESC (or ASC, ASC when asc)
RECURSIVE OrderBy(_, _, _)
OrderBy(db, S, asc) ==
    IF S = {} THEN <<>>
    ELSE LET first == CHOOSE a \in S : \A b \in S \ {a} :
                          IF asc THEN Before(db, b, a) ELSE Before(db, a, b)
         IN <<first>> \o OrderBy(db, S \ {first}, asc)

Limit(seq, n) == SubSeq(seq, 1, IF Len(seq) < n THEN Len(seq) ELSE n)

\* the rows a statement with the ownership filter selects among those satisfying Where
Selected(db, user_ctx, Where(_)) ==
    {id \in DOMAIN db : Where(id) /\ _apply_user_filter(user_ctx, db[id])}

Dicts(db, ids) == [i \in DOMAIN ids |-> _match_to_dict(db, ids[i], FALSE)]

\* a single optional row: <<>> stands for None
get_match(db, match_id, user_ctx) ==
    LET sel == Selected(db, user_ctx, LAMBDA id : id = match_id)
    IN [i \in DOMAIN OrderBy(db, sel, FALSE) |-> _match_to_dict(db, match_id, TRUE)]

list_matches(db, limit, user_ctx) ==
    Dicts(db, Limit(OrderBy(db, Selected(db, user_ctx, LAMBDA id : TRUE), FALSE),
                    IF limit = 0 THEN 50 ELSE limit))

count_matches(db, user_ctx) == Cardinality(Selected(db, user_ctx, LAMBDA id : TRUE))

list_matches_by_season(db, season_id, user_ctx) ==
    LET season == StrOr(RepoSafeStr(season_id, SEASON_MAX), "")
    IN Dicts(db, OrderBy(db, Selected(db, user_ctx, LAMBDA id : db[id].season_id = season),
                         FALSE))

list_all_seasons(db, user_ctx) ==
    {db[id].season_id : id \in Selected(db, user_ctx, LAMBDA id : TRUE)}

get_latest_match(db, user_ctx) ==
    Dicts(db, Limit(OrderBy(db, Selected(db, user_ctx, LAMBDA id : TRUE), FALSE), 1))

get_earliest_match(db, user_ctx) ==
    Dicts(db, Limit(OrderBy(db, Selected(db, user_ctx, LAMBDA id : TRUE), TRUE), 1))

get_matches_in_date_range(db, start_date, end_date, user_ctx) ==
    Dicts(db, OrderBy(db, Selected(db, user_ctx,
                LAMBDA id : DateLE(start_date, db[id].date) /\ DateLE(db[id].date, end_date)),
            FALSE))

HasPlayer(row, player_id) ==
    \E i \in DOMAIN row.player_stats : row.player_stats[i].player_id = player_id

get_matches_for_player(db, player_id, user_ctx) ==
    Dicts(db, OrderBy(db, Selected(db, user_ctx, LAMBDA id : HasPlayer(db[id], player_id)),
                      FALSE))

get_matches_for_player_in_season(db, player_id, season_id, user_ctx) ==
    LET season == StrOr(RepoSafeStr(season_id, SEASON_MAX), "")
    IN Dicts(db, OrderBy(db, Selected(db, user_ctx,
                    LAMBDA id : HasPlayer(db[id], player_id) /\ db[id].season_id = season),
                FALSE))

\* SUM(column) over the player's stat rows joined with the selected matches
RECURSIVE SumOver(_, _, _, _)
SumOver(db, ids, player_id, column) ==
    IF ids = {} THEN 0
    ELSE LET id == CHOOSE i \in ids : TRUE
             rows == SelectSeq(db[id].player_stats, LAMBDA r : r.player_id = player_id)
         IN SumSeq([i \in DOMAIN rows |->
                      CASE column = "goals" -> rows[i].goals
                        [] column = "behinds" -> rows[i].behinds
                        [] OTHER -> rows[i].points])
            + SumOver(db, ids \ {id}, player_id, column)

\* get_total_goals / behinds / points_for_player
get_total_for_player(db, column, player_id, user_ctx) ==
    SumOver(db, Selected(db, user_ctx, LAMBDA id : TRUE), player_id, column)

\* get_total_goals / behinds / points_for_player_in_season
get_total_for_player_in_season(db, column, player_id, season_id, user_ctx) ==
    LET season == StrOr(RepoSafeStr(season_id, SEASON_MAX), "")
    IN SumOver(db, Selected(db, user_ctx, LAMBDA id : db[id].season_id = season),
               player_id, column)

\* ORDER BY player_name ASC on the player names the model stores
NameRank(name) ==
    CASE name = "Inconnu" -> 1
      [] name = "Lucas"   -> 2
      [] name = LongNameCut -> 3
      [] name = "bob"     -> 4
      [] OTHER            -> 5

get_player_stats_in_match(db, match_id, user_ctx) ==
    IF match_id \notin DOMAIN db \/ ~_authorized_for_match(user_ctx, db[match_id])
    THEN <<>>
    ELSE SortSeq(db[match_id].player_stats,
                 LAMBDA a, b : NameRank(a.player_name) < NameRank(b.player_name))

get_quarters_in_match(db, match_id, user_ctx) ==
    IF match_id \notin DOMAIN db \/ ~_authorized_for_match(user_ctx, db[match_id])
    THEN <<>>
    ELSE SortSeq(db[match_id].quarters, LAMBDA a, b : a.q < b.q)

count_matches_in_season(db, season_id, user_ctx) ==
    LET season == StrOr(RepoSafeStr(season_id, SEASON_MAX), "")
    IN Cardinality(Selected(db, user_ctx, LAMBDA id : db[id].season_id = season))

count_all_matches(db, user_ctx) == count_matches(db, user_ctx)

list_matches_for_team(db, team_name, limit, user_ctx) ==
    LET requested == RepoSafeStr(team_name, CLUB_MAX)
        team == IF ~_is_admin(user_ctx)
                THEN StrOr(Strip(_user_team_name(user_ctx)), requested)
                ELSE requested
    IN IF team = NoneStr \/ team = "" THEN <<>>
       ELSE Dicts(db, Limit(OrderBy(db, {id \in DOMAIN db :
                                db[id].home_club = team \/ db[id].away_club = team}, FALSE),
                            IF limit = 0 THEN 100 ELSE limit))

-----------------------------------------------------------------------------
(* Spec: callers of the matches repository *)

Admin == Ctx(TRUE, NoneStr)
UserA == Ctx(FALSE, "A")
UserB == Ctx(FALSE, "B")
UserCtxs == {Admin, UserA, UserB, NoCtx}

MatchIds == 1..MaxMatches

WithPlayer(row, player_id) == [row EXCEPT !.player_id = player_id]

\* matches handed to insert_match: totals only, with raw strings; a quarter, a player
\* and totals the quarters do not give; a negative total
InsertInputs ==
    { Match(" 2025", Date(2025, 1), "  ", "A", "B", 6, 7, <<>>, <<>>),
      Match("2024", Date(2025, 2), NoneStr, "B", "C", 0, 0,
            <<Quarter(1, 1, 0, 6, 0, 1, 1)>>, <<WithPlayer(PlayerStat("bob", 1, 0, 6), 1)>>),
      Match("2025", Date(2025, 1), NoneStr, "A", "C", 0 - 1, 0, <<>>, <<>>) }

\* matches handed to update_match: a second quarter with home points left at 0 and
\* away points that are not 6*goals + behinds; the first quarter again
UpdateInputs ==
    { Match("2025", Date(2025, 1), NoneStr, " A ", "C", 3, 3,
            <<Quarter(2, 0, 2, 0, 1, 1, 8)>>, <<PlayerStat(" lucas ", 0, 2, 0)>>),
      Match("2024", Date(2025, 2), NoneStr, "B", "C", 0, 0,
            <<Quarter(1, 1, 0, 6, 0, 1, 1)>>, <<>>) }

NoPatch == Patch(NoneStr, NoDate, NoneStr, NoneStr, NoneStr, {}, 0, 0)

\* patches handed to update_match_fields: clubs and a total; a blank season; a negative
\* total
PatchInputs ==
    { [NoPatch EXCEPT !.home_club = "C", !.away_club = "  ",
                      !.given_totals = {"home"}, !.total_home_points = 9],
      [NoPatch EXCEPT !.season_id = "  "],
      [NoPatch EXCEPT !.given_totals = {"home", "away"}, !.total_home_points = 0 - 1] }

StatsRow(player_id, player_name, goals, behinds) ==
    [player_id |-> player_id, player_name |-> player_name,
     goals |-> goals, behinds |-> behinds]

\* rows handed to replace_player_stats_for_match: one player; two rows that get the
\* same name
StatsInputs ==
    { <<StatsRow(NoPlayer, "Lucas", 0, 1)>>,
      <<StatsRow(NoPlayer, NoneStr, 1, 0), StatsRow(NoPlayer, "Inconnu", 0, 0)>> }

RecalcSides == {"home", "away", NoneStr}

Init ==
    /\ matches = NoMatches
    /\ ret = NoRet
    /\ vin = DefaultMatch
    /\ vout = NoOut
    /\ tables = NoTables
    /\ sess = NoSessions
    /\ backend = "sqlite"
    /\ st = NoSt
    /\ users = NoUsers
    /\ players = NoPlayers

Returned(op, user_ctx, match_id, o) ==
    [op |-> op, ctx |-> user_ctx, id |-> match_id, value |-> o.value, raised |-> o.raised]

InsertMatch ==
    \E match \in InsertInputs, user_ctx \in UserCtxs :
        /\ NewId(matches) <= MaxMatches
        /\ LET o == insert_match(matches, match, user_ctx)
           IN /\ matches' = o.db
              /\ ret' = Returned("insert_match", user_ctx, o.value, o)
        /\ UNCHANGED <<vin, vout, dbvars>>

DeleteMatch ==
    \E match_id \in MatchIds, user_ctx \in UserCtxs :
        /\ LET o == delete_match(matches, match_id, user_ctx)
           IN /\ matches' = o.db
              /\ ret' = Returned("delete_match", user_ctx, match_id, o)
        /\ UNCHANGED <<vin, vout, dbvars>>

UpdateMatch ==
    \E match_id \in MatchIds, updated_match \in UpdateInputs, user_ctx \in UserCtxs :
        /\ LET o == update_match(matches, match_id, updated_match, user_ctx)
           IN /\ matches' = o.db
              /\ ret' = Returned("update_match", user_ctx, match_id, o)
        /\ UNCHANGED <<vin, vout, dbvars>>

UpdateMatchFields ==
    \E match_id \in MatchIds, patch \in PatchInputs, user_ctx \in UserCtxs :
        /\ LET o == update_match_fields(matches, match_id, patch, user_ctx)
           IN /\ matches' = o.db
              /\ ret' = Returned("update_match_fields", user_ctx, match_id, o)
        /\ UNCHANGED <<vin, vout, dbvars>>

ReplacePlayerStats ==
    \E match_id \in MatchIds, stats_rows \in StatsInputs,
       recalc_match_totals_side \in RecalcSides, user_ctx \in UserCtxs :
        /\ LET o == replace_player_stats_for_match(matches, match_id, stats_rows,
                                                   recalc_match_totals_side, user_ctx)
           IN /\ matches' = o.db
              /\ ret' = Returned("replace_player_stats_for_match", user_ctx, match_id, o)
        /\ UNCHANGED <<vin, vout, dbvars>>

DeleteAllMatches ==
    \E user_ctx \in UserCtxs :
        /\ LET o == delete_all_matches(matches, user_ctx)
           IN /\ matches' = o.db
              /\ ret' = Returned("delete_all_matches", user_ctx, 0, o)
        /\ UNCHANGED <<vin, vout, dbvars>>

Next ==
    \/ InsertMatch
    \/ DeleteMatch
    \/ UpdateMatch
    \/ UpdateMatchFields
    \/ ReplacePlayerStats
    \/ DeleteAllMatches

Spec == Init /\ [][Next]_vars

-----------------------------------------------------------------------------
(* services/match_service.py *)

_ensure_playerstat(r) == [r EXCEPT !.player_name = StrOr(SvcSafeStr(r.player_name), "Inconnu")]

_normalize_match(m) ==
    [m EXCEPT !.season_id = StrOr(SvcSafeStr(m.season_id), ""),
              !.venue = SvcSafeStr(m.venue),
              !.home_club = StrOr(SvcSafeStr(m.home_club), ""),
              !.away_club = StrOr(SvcSafeStr(m.away_club), ""),
              !.player_stats = [i \in DOMAIN m.player_stats |->
                                   _ensure_playerstat(m.player_stats[i])]]

\* (allowed, why); a falsy user_ctx (None) is let through
_ensure_authorized_to_create(user_ctx, match) ==
    IF user_ctx.none THEN [allowed |-> TRUE, why |-> <<>>]
    ELSE IF user_ctx.is_admin THEN [allowed |-> TRUE, why |-> <<>>]
    ELSE LET team == Strip(StrOr(user_ctx.team_name, ""))
         IN IF team = ""
            THEN [allowed |-> FALSE,
                  why |-> <<"Aucune equipe associee a votre compte.", "", "">>]
            ELSE IF team \notin {match.home_club, match.away_club}
            THEN [allowed |-> FALSE,
                  why |-> <<"Non autorise: votre equipe ne figure pas dans ce match.",
                            team, "">>]
            ELSE [allowed |-> TRUE, why |-> <<>>]

\* the side the service and the entry page give validate_match
TeamSideOf(user_ctx, m) ==
    IF ~user_ctx.none /\ user_ctx.team_name # NoneStr /\ user_ctx.team_name # ""
    THEN IF m.home_club = user_ctx.team_name THEN "home"
         ELSE IF m.away_club = user_ctx.team_name THEN "away"
         ELSE NoneStr
    ELSE NoneStr

\* steps 1 and 2 of save_post_match: the match the service validates and stores
Prepared(match) ==
    LET m == _normalize_match(match)
    IN IF m.quarters # <<>> THEN compute_totals_from_quarters(m) ELSE m

\* (ok, errors, new_id); new_id 0 stands for None
SaveResult(ok, errors, new_id) == [ok |-> ok, errors |-> errors, new_id |-> new_id]

\* mutant: validation errors do not stop the save
save_post_match_IgnoresErrors(db, match, user_ctx) ==
    LET m == Prepared(match)
        auth == _ensure_authorized_to_create(user_ctx, m)
        o == insert_match(db, m, NoCtx)
    IN IF ~auth.allowed
       THEN Outcome(db, SaveResult(FALSE, <<auth.why>>, 0), "")
       ELSE IF o.raised # ""
       THEN Outcome(o.db, SaveResult(FALSE, <<<<"Erreur enregistrement", o.raised, "">>>>, 0), "")
       ELSE Outcome(o.db, SaveResult(TRUE, <<>>, o.value), "")

\* insert_match is called without user_ctx, and every exception it raises is caught
save_post_match(db, match, user_ctx) ==
    LET m == Prepared(match)
        v == validate_match(m, TeamSideOf(user_ctx, m), NoneStr)
        auth == _ensure_authorized_to_create(user_ctx, m)
        o == insert_match(db, m, NoCtx)
    IN IF ~v.ok
       THEN Outcome(db, SaveResult(FALSE, issues_as_strings(v.errors), 0), "")
       ELSE IF ~auth.allowed
       THEN Outcome(db, SaveResult(FALSE, <<auth.why>>, 0), "")
       ELSE IF o.raised # ""
       THEN Outcome(o.db, SaveResult(FALSE, <<<<"Erreur enregistrement", o.raised, "">>>>, 0), "")
       ELSE Outcome(o.db, SaveResult(TRUE, <<>>, o.value), "")

-----------------------------------------------------------------------------
(* SpecSvc: the entry page (pages/Saisie_post_match.py), the service and the repository *)

\* _auth_ctx(): the session's user with the team name stripped, "" when there is none
PageCallers == {Ctx(TRUE, ""), UserA, UserB, Ctx(FALSE, "")}

SvcCallers == PageCallers \cup {NoCtx}

\* candidates of the form: accepted; quarters whose sum replaces the totals; an
\* unexpected quarter number and a two-digit season (warnings); a negative total, a
\* quarter off the formula, a blank club, players off the declared total (errors)
SvcCandidates ==
    { Match("2025", Date(2025, 1), "Stade", "A", "B", 6, 7, <<>>, <<>>),
      Match("2025", Date(2025, 1), NoneStr, "A", "B", 0, 0,
            <<Quarter(1, 1, 0, 6, 0, 1, 1), Quarter(2, 0, 1, 1, 1, 0, 6)>>,
            <<PlayerStat("Lucas", 1, 1, 7)>>),
      Match("25", Date(2025, 1), NoneStr, "B", "A", 3, 4, <<Quarter(5, 0, 3, 3, 0, 4, 4)>>, <<>>),
      Match("2025", Date(2025, 1), NoneStr, "A", "B", 0 - 1, 7, <<>>, <<>>),
      Match("2025", Date(2025, 1), NoneStr, "A", "B", 6, 7,
            <<Quarter(1, 1, 0, 5, 0, 1, 1)>>, <<>>),
      Match("2025", Date(2025, 1), NoneStr, "  ", "B", 6, 7, <<>>, <<>>),
      Match("2025", Date(2025, 1), NoneStr, "A", "B", 6, 7, <<>>,
            <<PlayerStat("Lucas", 1, 0, 6), PlayerStat(" lucas ", 0, 1, 1)>>) }

InitSvc ==
    /\ matches = NoMatches
    /\ ret = NoRet
    /\ vin \in SvcCandidates
    /\ vout = NoOut
    /\ tables = NoTables
    /\ sess = NoSessions
    /\ backend = "sqlite"
    /\ st = NoSt
    /\ users = NoUsers
    /\ players = NoPlayers

\* one run of the page script up to the save button
RenderEntryPage ==
    \E caller \in PageCallers :
        /\ LET res == validate_match(vin, TeamSideOf(caller, vin), NoneStr)
           IN vout' = [fn |-> "Saisie_post_match", caller |-> caller, res |-> res,
                       disabled |-> ~res.ok]
        /\ UNCHANGED <<vin, matches, ret, dbvars>>

\* a click on the save button, which only an enabled button takes; upsert_players
\* writes the players table, which is not part of the state kept here
ClickSave ==
    \E csrf_ok \in BOOLEAN :
        /\ vout.fn = "Saisie_post_match"
        /\ ~vout.disabled
        /\ IF ~csrf_ok
           THEN /\ ret' = [op |-> "click_save", ctx |-> vout.caller, id |-> 0,
                           value |-> SaveResult(FALSE, <<<<"CSRF invalide.", "", "">>>>, 0),
                           raised |-> ""]
                /\ UNCHANGED matches
           ELSE LET o == save_post_match(matches, vin, vout.caller)
                IN /\ matches' = o.db
                   /\ ret' = Returned("click_save", vout.caller, o.value.new_id, o)
        /\ UNCHANGED <<vin, vout, dbvars>>

CallSavePostMatch ==
    \E user_ctx \in SvcCallers :
        /\ LET o == save_post_match(matches, vin, user_ctx)
           IN /\ matches' = o.db
              /\ ret' = Returned("save_post_match", user_ctx, o.value.new_id, o)
        /\ UNCHANGED <<vin, vout, dbvars>>

NextSvc ==
    \/ RenderEntryPage
    \/ ClickSave
    \/ CallSavePostMatch
    \/ InsertMatch

SpecSvc == InitSvc /\ [][NextSvc]_vars

-----------------------------------------------------------------------------
(* core/db.py: the session context manager, and a unit of work run inside it *)

\* the columns of a matches row
Header(m) ==
    [season_id |-> m.season_id, date |-> m.date, venue |-> m.venue,
     home_club |-> m.home_club, away_club |-> m.away_club,
     total_home_points |-> m.total_home_points, total_away_points |-> m.total_away_points]

\* the matches as the ORM loads them: each with the children that carry its id
Nested(t) ==
    [id \in DOMAIN t.matches |->
        LET h == t.matches[id]
        IN Match(h.season_id, h.date, h.venue, h.home_club, h.away_club,
                 h.total_home_points, h.total_away_points,
                 t.quarters[id], t.player_stats[id])]

\* the tables after the ORM wrote the matches db with their children; the children of
\* an id that has no match are rows no match owns, and stay as they are
Flat(db, t) ==
    [matches |-> [id \in DOMAIN db |-> Header(db[id])],
     quarters |-> [id \in MatchIds |->
                     IF id \in DOMAIN db THEN db[id].quarters ELSE t.quarters[id]],
     player_stats |-> [id \in MatchIds |->
                         IF id \in DOMAIN db THEN db[id].player_stats ELSE t.player_stats[id]]]

\* the error the flush of the pending rows raises, "" when every constraint holds
FlushError(t) ==
    IF \A id \in DOMAIN t.matches : RowConstraintsHold(Nested(t)[id])
    THEN "" ELSE "IntegrityError"

\* what leaving the with-block does: db is what is committed, work is db with the
\* pending writes of the session, raised is the exception of the body ("" when it
\* finished); the result is what is committed afterwards, the exception that reaches
\* the caller, and whether the session is closed. An exception that is not an Exception
\* skips the except clause; the close() of the finally clause then discards the pending
\* writes, so both kinds leave db as it is
SessionExit(db, raised, closed) == [db |-> db, raised |-> raised, closed |-> closed]

\* mutant: the pending writes are committed when the body raised
get_session_CommitsOnRaise(db, work, readonly, raised) ==
    IF readonly THEN SessionExit(db, raised, TRUE)
    ELSE IF FlushError(work) # "" THEN SessionExit(db, FlushError(work), TRUE)
    ELSE SessionExit(work, raised, TRUE)

get_session(db, work, readonly, raised) ==
    IF raised # "" THEN SessionExit(db, raised, TRUE)
    ELSE IF readonly THEN SessionExit(db, "", TRUE)
    ELSE IF FlushError(work) # "" THEN SessionExit(db, FlushError(work), TRUE)
    ELSE SessionExit(work, "", TRUE)

\* exceptions a body raises: one that derives from Exception, and a control exception
\* of the page framework that derives from BaseException only
BodyExceptions == {"ValueError", "StopException"}

\* SessionLocal(), then the body starts
UowEnter(s) ==
    \E readonly \in BOOLEAN :
        /\ sess[s].pc \in {"idle", "done"}
        /\ sess' = [sess EXCEPT ![s] = [NoSession EXCEPT !.pc = "body", !.op = "uow",
                                          !.readonly = readonly,
                                          !.base = tables, !.work = tables]]
        /\ UNCHANGED <<tables, backend, st, uservars, repovars>>

\* the body adds a match with its children to the session
UowAdd(s) ==
    \E match \in InsertInputs :
        /\ sess[s].pc = "body"
        /\ NewId(sess[s].work.matches) <= MaxMatches
        /\ sess' = [sess EXCEPT ![s].work =
                        Flat(Put(Nested(@), NewId(@.matches), match), @)]
        /\ UNCHANGED <<tables, backend, st, uservars, repovars>>

\* the body deletes a loaded match; the relationship cascades to its children
UowDelete(s) ==
    \E match_id \in MatchIds :
        /\ sess[s].pc = "body"
        /\ match_id \in DOMAIN sess[s].work.matches
        /\ sess' = [sess EXCEPT ![s].work =
                        [matches |-> Drop(@.matches, match_id),
                         quarters |-> [@.quarters EXCEPT ![match_id] = <<>>],
                         player_stats |-> [@.player_stats EXCEPT ![match_id] = <<>>]]]
        /\ UNCHANGED <<tables, backend, st, uservars, repovars>>

\* the body calls s.commit(), as every writing body of the repositories does; a flush
\* error is an exception of the body
UowCommit(s) ==
    /\ sess[s].pc = "body"
    /\ ~sess[s].readonly
    /\ IF FlushError(sess[s].work) # ""
       THEN LET x == get_session(tables, sess[s].work, FALSE, FlushError(sess[s].work))
            IN /\ tables' = x.db
               /\ sess' = [sess EXCEPT ![s].pc = "done", ![s].body = "raised",
                                       ![s].raised = x.raised, ![s].closed = x.closed]
       ELSE /\ tables' = sess[s].work
            /\ sess' = [sess EXCEPT ![s].base = sess[s].work]
    /\ UNCHANGED <<backend, st, uservars, repovars>>

\* the body raises
UowRaise(s) ==
    \E exc \in BodyExceptions :
        /\ sess[s].pc = "body"
        /\ LET x == get_session(tables, sess[s].work, sess[s].readonly, exc)
           IN /\ tables' = x.db
              /\ sess' = [sess EXCEPT ![s].pc = "done", ![s].body = "raised",
                                      ![s].raised = x.raised, ![s].closed = x.closed]
        /\ UNCHANGED <<backend, st, uservars, repovars>>

\* the body finishes; a body that writes has called s.commit() itself, so no pending
\* row is left that the commit of the context manager would reject
UowReturn(s) ==
    /\ sess[s].pc = "body"
    /\ sess[s].readonly \/ FlushError(sess[s].work) = ""
    /\ LET x == get_session(tables, sess[s].work, sess[s].readonly, "")
       IN /\ tables' = x.db
          /\ sess' = [sess EXCEPT ![s].pc = "done", ![s].body = "returned",
                                  ![s].raised = x.raised, ![s].closed = x.closed]
    /\ UNCHANGED <<backend, st, uservars, repovars>>

InitUoW ==
    /\ tables = NoTables
    /\ sess = NoSessions
    /\ backend = "sqlite"
    /\ st = NoSt
    /\ users = NoUsers
    /\ players = NoPlayers
    /\ matches = NoMatches
    /\ ret = NoRet
    /\ vin = DefaultMatch
    /\ vout = NoOut

NextUoW ==
    \/ UowEnter(1)
    \/ UowAdd(1)
    \/ UowDelete(1)
    \/ UowCommit(1)
    \/ UowRaise(1)
    \/ UowReturn(1)

SpecUoW == InitUoW /\ [][NextUoW]_vars

-----------------------------------------------------------------------------
(* The repository on the tables: replace_player_stats_for_match statement by statement
   in a session of its own, the other writers one call at a time *)

\* mutant: every statement is committed as it runs
autocommit_On == TRUE
\* SessionLocal(autocommit=False): a statement runs in the transaction of its session
autocommit == FALSE

\* mutant: SQLite's default, foreign keys are not enforced
foreign_keys_Off == FALSE
\* PRAGMA foreign_keys=ON on every SQLite connection; other databases enforce them
foreign_keys == TRUE

Backends == {"sqlite", "postgresql"}

\* rows handed to replace_player_stats_for_match: 1 point; two rows that get the same
\* name; 6 points under a name longer than the column
TxStatsInputs == StatsInputs \cup {<<StatsRow(NoPlayer, LongName, 1, 0)>>}

TxCallers == {Admin, UserA}

\* recalc_match_totals_side: the home total from the rows, or both from the quarters
TxSides == {"home", NoneStr}

\* ON DELETE CASCADE of quarters.match_id and player_stats.match_id
OnDeleteCascade(t) ==
    IF ~foreign_keys THEN t
    ELSE [t EXCEPT
            !.quarters = [id \in MatchIds |->
                             IF id \in DOMAIN t.matches THEN t.quarters[id] ELSE <<>>],
            !.player_stats = [id \in MatchIds |->
                                 IF id \in DOMAIN t.matches THEN t.player_stats[id] ELSE <<>>]]

\* s.delete(m): cascade="all, delete-orphan" deletes the loaded children, then the match
OrmDelete(t, match_id) ==
    OnDeleteCascade([matches |-> Drop(t.matches, match_id),
                     quarters |-> [t.quarters EXCEPT ![match_id] = <<>>],
                     player_stats |-> [t.player_stats EXCEPT ![match_id] = <<>>]])

\* s.execute(delete(Match)): one DELETE on matches, the children go by the foreign keys
CoreDeleteAll(t) == OnDeleteCascade([t EXCEPT !.matches = NoMatches])

\* no call is under way in any session
AllQuiet == \A s \in Sessions : sess[s].pc = "idle"

TxInsertMatch ==
    \E match \in InsertInputs, user_ctx \in TxCallers :
        /\ AllQuiet
        /\ NewId(tables.matches) <= MaxMatches
        /\ LET o == insert_match(Nested(tables), match, user_ctx)
           IN /\ tables' = Flat(o.db, tables)
              /\ ret' = Returned("insert_match", user_ctx, o.value, o)
        /\ UNCHANGED <<sess, backend, st, uservars, matches, vin, vout>>

TxUpdateMatch ==
    \E match_id \in MatchIds, updated_match \in UpdateInputs, user_ctx \in TxCallers :
        /\ AllQuiet
        /\ LET o == update_match(Nested(tables), match_id, updated_match, user_ctx)
           IN /\ tables' = Flat(o.db, tables)
              /\ ret' = Returned("update_match", user_ctx, match_id, o)
        /\ UNCHANGED <<sess, backend, st, uservars, matches, vin, vout>>

TxDeleteMatch ==
    \E match_id \in MatchIds, user_ctx \in TxCallers :
        /\ AllQuiet
        /\ LET found == match_id \in DOMAIN tables.matches
                        /\ _authorized_for_match(user_ctx, Nested(tables)[match_id])
           IN /\ tables' = IF found THEN OrmDelete(tables, match_id) ELSE tables
              /\ ret' = Returned("delete_match", user_ctx, match_id,
                                 Outcome(NoMatches, found, ""))
        /\ UNCHANGED <<sess, backend, st, uservars, matches, vin, vout>>

TxDeleteAllMatches ==
    \E user_ctx \in TxCallers :
        /\ AllQuiet
        /\ tables' = IF _is_admin(user_ctx) THEN CoreDeleteAll(tables) ELSE tables
        /\ ret' = Returned("delete_all_matches", user_ctx, 0,
                           Outcome(NoMatches,
                                   IF _is_admin(user_ctx)
                                   THEN Cardinality(DOMAIN tables.matches) ELSE 0, ""))
        /\ UNCHANGED <<sess, backend, st, uservars, matches, vin, vout>>

\* how a call of replace_player_stats_for_match ends: through the exit of get_session;
\* the session keeps what the call returned or raised
TxEnd(s, x, value) ==
    /\ tables' = x.db
    /\ sess' = [sess EXCEPT ![s].pc = "done", ![s].value = value /\ x.raised = "",
                            ![s].raised = x.raised, ![s].closed = x.closed]
    /\ UNCHANGED ret

\* with get_session() as s: m = s.get(Match, match_id), and the two early returns
TxGet(s) ==
    \E match_id \in MatchIds, stats_rows \in TxStatsInputs,
       recalc_match_totals_side \in TxSides, user_ctx \in TxCallers :
        /\ sess[s].pc = "idle"
        /\ IF match_id \in DOMAIN tables.matches
              /\ _authorized_for_match(user_ctx, Nested(tables)[match_id])
           THEN /\ sess' = [sess EXCEPT ![s] =
                               [NoSession EXCEPT !.pc = "delete", !.op = "replace",
                                                 !.match_id = match_id,
                                                 !.stats_rows = stats_rows,
                                                 !.side = recalc_match_totals_side,
                                                 !.ctx = user_ctx, !.base = tables,
                                                 !.m = Nested(tables)[match_id]]]
                /\ UNCHANGED <<tables, ret>>
           ELSE LET x == get_session(tables, tables, FALSE, "")
                IN /\ tables' = x.db
                   /\ sess' = [sess EXCEPT ![s] =
                                  [NoSession EXCEPT !.pc = "done", !.op = "replace",
                                                    !.match_id = match_id,
                                                    !.stats_rows = stats_rows,
                                                    !.side = recalc_match_totals_side,
                                                    !.ctx = user_ctx, !.base = tables,
                                                    !.closed = x.closed]]
                   /\ UNCHANGED ret
        /\ UNCHANGED <<backend, st, uservars, matches, vin, vout>>

\* the sessions whose uncommitted DELETE stands in the way of the DELETE of session s:
\* SQLite has one writer at a time; PostgreSQL locks the rows a DELETE removed
LockHolders(s) ==
    {o \in Sessions \ {s} :
        /\ sess[o].pc = "commit"
        /\ \/ backend = "sqlite"
           \/ sess[o].deleted /\ sess[o].match_id = sess[s].match_id}

\* s.execute(delete(PlayerStat).where(PlayerStat.match_id == match_id))
TxDelete(s) ==
    /\ sess[s].pc = "delete"
    /\ LockHolders(s) = {}
    /\ sess' = [sess EXCEPT ![s].pc = "commit",
                            ![s].deleted = tables.player_stats[sess[s].match_id] # <<>>]
    /\ tables' = IF autocommit
                 THEN [tables EXCEPT !.player_stats[sess[s].match_id] = <<>>]
                 ELSE tables
    /\ UNCHANGED <<backend, st, uservars, repovars>>

\* SQLite: the busy timeout runs out while another session holds the write lock
TxLockTimeout(s) ==
    /\ sess[s].pc = "delete"
    /\ backend = "sqlite"
    /\ LockHolders(s) # {}
    /\ TxEnd(s, get_session(tables, tables, FALSE, "OperationalError"), FALSE)
    /\ UNCHANGED <<backend, st, uservars, matches, vin, vout>>

\* PostgreSQL: the DELETE has found the rows of its snapshot locked and waits
TxDeleteBlocks(s) ==
    \E o \in LockHolders(s) :
        /\ sess[s].pc = "delete"
        /\ backend = "postgresql"
        /\ sess' = [sess EXCEPT ![s].pc = "blocked", ![s].waits = o]
        /\ UNCHANGED <<tables, backend, st, uservars, repovars>>

\* PostgreSQL, READ COMMITTED: the holder has ended. When it committed, the rows this
\* DELETE waited for are gone and the rows the holder inserted are not in the snapshot
\* of the statement, so it removes nothing; when it rolled back, it removes the rows
TxDeleteResumes(s) ==
    /\ sess[s].pc = "blocked"
    /\ sess[sess[s].waits].pc = "done"
    /\ sess' = [sess EXCEPT ![s].pc = "commit",
                            ![s].deleted = /\ ~sess[sess[s].waits].value
                                           /\ tables.player_stats[sess[s].match_id] # <<>>]
    /\ UNCHANGED <<tables, backend, st, uservars, repovars>>

\* the loop that builds the rows, the totals, s.add(m) and s.commit(): the flush
\* INSERTs the rows and UPDATEs the totals whose value differs from the loaded one
TxCommit(s) ==
    /\ sess[s].pc = "commit"
    /\ LET match_id == sess[s].match_id
           m == sess[s].m
           rows == PlayerStatRows(sess[s].stats_rows)
           total_points == SumSeq([i \in DOMAIN rows |-> rows[i].points])
           m2 == IF sess[s].side = "home"
                 THEN [m EXCEPT !.total_home_points = total_points]
                 ELSE IF sess[s].side = "away"
                 THEN [m EXCEPT !.total_away_points = total_points]
                 ELSE _recompute_match_totals_from_quarters(m)
           stored == tables.matches[match_id]
           row == [stored EXCEPT
                      !.total_home_points =
                          IF m2.total_home_points # m.total_home_points
                          THEN m2.total_home_points ELSE @,
                      !.total_away_points =
                          IF m2.total_away_points # m.total_away_points
                          THEN m2.total_away_points ELSE @]
           kept == IF sess[s].deleted THEN <<>> ELSE tables.player_stats[match_id]
           work == [tables EXCEPT !.matches[match_id] = row,
                                  !.player_stats[match_id] = kept \o rows]
       IN IF FlushError(work) # ""
          THEN TxEnd(s, get_session(tables, work, FALSE, FlushError(work)), FALSE)
          ELSE TxEnd(s, get_session(work, work, FALSE, ""), TRUE)
    /\ UNCHANGED <<backend, st, uservars, matches, vin, vout>>

\* the call is over; the next one opens a session of its own
TxClose(s) ==
    /\ sess[s].pc = "done"
    /\ sess' = [sess EXCEPT ![s] = NoSession]
    /\ UNCHANGED <<tables, backend, st, uservars, repovars>>

InitTx ==
    /\ tables = NoTables
    /\ sess = NoSessions
    /\ backend = "sqlite"
    /\ st = NoSt
    /\ users = NoUsers
    /\ players = NoPlayers
    /\ matches = NoMatches
    /\ ret = NoRet
    /\ vin = DefaultMatch
    /\ vout = NoOut

\* SpecTx: the calls of the repository one after the other
NextTx ==
    \/ TxInsertMatch
    \/ TxUpdateMatch
    \/ TxDeleteMatch
    \/ TxDeleteAllMatches
    \/ TxGet(1)
    \/ TxDelete(1)
    \/ TxCommit(1)
    \/ TxClose(1)

SpecTx == InitTx /\ [][NextTx]_vars

InitConc ==
    /\ tables = NoTables
    /\ sess = NoSessions
    /\ backend \in Backends
    /\ st = NoSt
    /\ users = NoUsers
    /\ players = NoPlayers
    /\ matches = NoMatches
    /\ ret = NoRet
    /\ vin = DefaultMatch
    /\ vout = NoOut

\* SpecConc: two sessions that each make one call of replace_player_stats_for_match
NextConc ==
    \/ TxInsertMatch
    \/ \E s \in Sessions :
          \/ TxGet(s)
          \/ TxDelete(s)
          \/ TxLockTimeout(s)
          \/ TxDeleteBlocks(s)
          \/ TxDeleteResumes(s)
          \/ TxCommit(s)

SpecConc == InitConc /\ [][NextConc]_vars

-----------------------------------------------------------------------------
(* SpecPages: the CSRF token of the session and the handlers of the pages that write
   (pages/Saisie_post_match.py, Historique.py, admin.py, profil.py, connexion.py).
   A handler is recorded by the calls it makes to the repositories and the service,
   which the other specifications model; the match of Historique.py has id 1. *)

\* secrets.token_urlsafe(24): a non-empty random string
Tokens == {"t1", "t2"}

\* what a user can leave in a CSRF text input
FieldValues == Tokens \cup {""}

Pages == {"Saisie_post_match", "Historique", "admin", "profil", "connexion"}

\* the keys of the CSRF text inputs a page renders
PageWidgets(page) ==
    CASE page = "Saisie_post_match" -> {"csrf_save"}
      [] page = "Historique" -> {"csrf-upd-1", "csrf-ps-1"}
      [] page = "admin" -> {"csrf_create", "csrf_team", "csrf_admin", "csrf_pwd"}
      [] OTHER -> {}

CsrfKeys == UNION {PageWidgets(p) : p \in Pages}

\* bool(token and token == st.session_state.get("csrf_token"))
check_csrf(token, csrf_token) ==
    /\ token # NoneStr
    /\ token # ""
    /\ token = csrf_token

\* what a handler did: the token it read for the check, the session's token at that
\* time, and the calls it went on to make
Handled(button, submitted, csrf_token, calls) ==
    [clicked |-> button, submitted |-> submitted, expected |-> csrf_token, called |-> calls]

NoClick == Handled("none", NoneStr, NoneStr, <<>>)

\* a script run of a page: _ensure_csrf(), then the CSRF inputs, which keep what the
\* session holds for their key and start at the token otherwise; the state of the
\* widgets the run did not render is dropped
Rendered(page, s, token) ==
    [page |-> page, auth |-> s.auth, csrf_token |-> token,
     widgets |-> [k \in CsrfKeys |->
                    IF k \notin PageWidgets(page) THEN NoneStr
                    ELSE IF s.widgets[k] # NoneStr THEN s.widgets[k]
                    ELSE token],
     last |-> NoClick]

\* the run of a click: the handler reads st.session_state.get(key) and goes on only
\* when the check passes and the rest of the form is valid
Clicked(button, key, valid, calls) ==
    LET token == st.widgets[key]
        passed == check_csrf(token, st.csrf_token)
    IN st' = [st EXCEPT !.last = Handled(button, token, st.csrf_token,
                                         IF passed /\ valid THEN calls ELSE <<>>)]

OtherVarsUnchanged == UNCHANGED <<tables, sess, backend, uservars, repovars>>

\* the user opens a page; every page but connexion.py stops for a visitor
OpenPage ==
    \E page \in Pages, fresh \in Tokens :
        /\ page # "connexion" => st.auth
        /\ st' = Rendered(page, st, IF st.csrf_token = NoneStr THEN fresh ELSE st.csrf_token)
        /\ OtherVarsUnchanged

\* the user overwrites a CSRF input of the page
EditCsrfField ==
    \E k \in CsrfKeys, v \in FieldValues :
        /\ k \in PageWidgets(st.page)
        /\ st.widgets[k] # v
        /\ st' = [st EXCEPT !.widgets[k] = v, !.last = NoClick]
        /\ OtherVarsUnchanged

\* connexion.py: the check compares the session's token with itself; a login rotates it
Login ==
    \E ok \in BOOLEAN, fresh \in Tokens :
        /\ st.page = "connexion"
        /\ ~st.auth
        /\ IF check_csrf(st.csrf_token, st.csrf_token) /\ ok
           THEN st' = [st EXCEPT !.auth = TRUE, !.csrf_token = fresh,
                                 !.last = Handled("login", NoneStr, st.csrf_token, <<"login">>)]
           ELSE st' = [st EXCEPT !.last = Handled("login", NoneStr, st.csrf_token, <<>>)]
        /\ OtherVarsUnchanged

\* profil.py and connexion.py: logout() pops the user and the token, and the rerun of
\* connexion.py issues the next token
Logout ==
    \E fresh \in Tokens :
        /\ st.page \in {"profil", "connexion"}
        /\ st.auth
        /\ st' = Rendered("connexion", [st EXCEPT !.auth = FALSE], fresh)
        /\ OtherVarsUnchanged

\* Saisie_post_match.py: the save button
ClickSaveMatch ==
    /\ st.page = "Saisie_post_match"
    /\ Clicked("save_match", "csrf_save", TRUE, <<"upsert_players", "save_post_match">>)
    /\ OtherVarsUnchanged

\* Historique.py: the fields of a match
ClickUpdateMatch ==
    /\ st.page = "Historique"
    /\ Clicked("update_match", "csrf-upd-1", TRUE, <<"update_match_fields">>)
    /\ OtherVarsUnchanged

\* Historique.py: the player stats of a match; no call when no row has a name
ClickSavePlayerStats ==
    \E rows_to_save \in BOOLEAN :
        /\ st.page = "Historique"
        /\ Clicked("save_player_stats", "csrf-ps-1", rows_to_save,
                   <<"replace_player_stats_for_match">>)
        /\ OtherVarsUnchanged

\* admin.py: create a user; the email and a password of 8 characters are required
AdminCreateUser ==
    \E valid \in BOOLEAN :
        /\ st.page = "admin"
        /\ Clicked("admin_create", "csrf_create", valid, <<"create_user">>)
        /\ OtherVarsUnchanged

AdminUpdateTeam ==
    /\ st.page = "admin"
    /\ Clicked("admin_team", "csrf_team", TRUE, <<"update_user_team">>)
    /\ OtherVarsUnchanged

\* admin.py: the admin flag; the root account keeps it
AdminSetAdminFlag ==
    \E valid \in BOOLEAN :
        /\ st.page = "admin"
        /\ Clicked("admin_flag", "csrf_admin", valid, <<"set_admin_flag">>)
        /\ OtherVarsUnchanged

AdminSetPassword ==
    \E valid \in BOOLEAN :
        /\ st.page = "admin"
        /\ Clicked("admin_password", "csrf_pwd", valid, <<"set_password">>)
        /\ OtherVarsUnchanged

\* admin.py: delete a user. The button has no CSRF input; the handler passes the
\* script's own csrf, which _ensure_csrf() has just read from the session
AdminDeleteUser ==
    \E confirmed \in BOOLEAN :
        /\ st.page = "admin"
        /\ LET csrf == st.csrf_token
               passed == check_csrf(csrf, st.csrf_token)
           IN st' = [st EXCEPT !.last = Handled("admin_delete", NoneStr, st.csrf_token,
                                  IF confirmed /\ passed THEN <<"delete_user_by_id">>
                                  ELSE <<>>)]
        /\ OtherVarsUnchanged

\* profil.py: the forms render no CSRF input, so the keys the handlers read are absent
ProfilUpdateTeam ==
    /\ st.page = "profil"
    /\ Clicked("profil_team", "csrf_team", TRUE, <<"update_user_team">>)
    /\ OtherVarsUnchanged

ProfilSetPassword ==
    \E valid \in BOOLEAN :
        /\ st.page = "profil"
        /\ Clicked("profil_password", "csrf_pwd", valid,
                   <<"verify_password_by_email", "set_password">>)
        /\ OtherVarsUnchanged

InitPages ==
    /\ st = NoSt
    /\ users = NoUsers
    /\ players = NoPlayers
    /\ tables = NoTables
    /\ sess = NoSessions
    /\ backend = "sqlite"
    /\ matches = NoMatches
    /\ ret = NoRet
    /\ vin = DefaultMatch
    /\ vout = NoOut

NextPages ==
    \/ OpenPage
    \/ EditCsrfField
    \/ Login
    \/ Logout
    \/ ClickSaveMatch
    \/ ClickUpdateMatch
    \/ ClickSavePlayerStats
    \/ AdminCreateUser
    \/ AdminUpdateTeam
    \/ AdminSetAdminFlag
    \/ AdminSetPassword
    \/ AdminDeleteUser
    \/ ProfilUpdateTeam
    \/ ProfilSetPassword

SpecPages == InitPages /\ [][NextPages]_vars

-----------------------------------------------------------------------------
(* SpecScore: the three point computations on the same goals and behinds *)

ScoreValues == 0..MaxScore

Scored(fn, goals, behinds, value) ==
    [fn |-> fn, goals |-> goals, behinds |-> behinds, value |-> value]

NoScoreVarsChange == UNCHANGED <<vin, matches, ret, dbvars>>

CallPointsOf ==
    \E g \in ScoreValues, b \in ScoreValues :
        /\ vout' = Scored("points_of", g, b, points_of(g, b))
        /\ NoScoreVarsChange

CallCalcPoints ==
    \E g \in ScoreValues, b \in ScoreValues :
        /\ vout' = Scored("calc_points", g, b, calc_points(g, b))
        /\ NoScoreVarsChange

CallRecomputePoints ==
    \E g \in ScoreValues, b \in ScoreValues :
        /\ vout' = Scored("_recompute_points", g, b, _recompute_points(g, b))
        /\ NoScoreVarsChange

InitScore ==
    /\ vout = NoOut
    /\ vin = DefaultMatch
    /\ matches = NoMatches
    /\ ret = NoRet
    /\ tables = NoTables
    /\ sess = NoSessions
    /\ backend = "sqlite"
    /\ st = NoSt
    /\ users = NoUsers
    /\ players = NoPlayers

NextScore ==
    \/ CallPointsOf
    \/ CallCalcPoints
    \/ CallRecomputePoints

SpecScore == InitScore /\ [][NextScore]_vars

-----------------------------------------------------------------------------
(* core/repos/users_repo.py on the users table *)

\* the default of os.getenv("ADMIN_EMAIL"), stripped and lowered
ADMIN_EMAIL == "az.analytics.pro@gmail.com"

\* str.strip().lower() on the email strings of the model
StripLower(s) ==
    CASE s = " AZ.Analytics.Pro@Gmail.com " -> "az.analytics.pro@gmail.com"
      [] s = "Bob@Club.fr" -> "bob@club.fr"
      [] OTHER -> s

\* _EMAIL_RE.match on the stripped, lowered email strings of the model
EmailMatches(e) == e \in {"az.analytics.pro@gmail.com", "bob@club.fr"}

\* [ok |-> FALSE] stands for ValueError("Email invalide.")
_norm_email(email) ==
    LET e == StripLower(StrOr(email, ""))
    IN IF e = "" \/ ~EmailMatches(e) THEN [ok |-> FALSE, v |-> ""] ELSE [ok |-> TRUE, v |-> e]

_norm_team(team_name) ==
    IF team_name = NoneStr THEN NoneStr
    ELSE LET s == Truncate(Strip(team_name), 80) IN IF s = "" THEN NoneStr ELSE s

\* [ok |-> FALSE] stands for ValueError: the password must have 8 to 256 characters
_norm_password(pwd) ==
    IF pwd = NoneStr \/ ~(8 <= Len(pwd) /\ Len(pwd) <= 256)
    THEN [ok |-> FALSE, v |-> ""]
    ELSE [ok |-> TRUE, v |-> pwd]

\* a password hash: the scheme and the password it verifies
Hash(scheme, raw) == [scheme |-> scheme, raw |-> raw]

_hash_password(raw) == Hash("pbkdf2_sha256", raw)

_is_bcrypt(hash_) == hash_.scheme = "bcrypt"

\* a caller_ctx: a dict with id and is_admin, or None; id 0 stands for no id
UCtx(id, is_admin) == [none |-> FALSE, id |-> id, is_admin |-> is_admin]
NoUCtx == [none |-> TRUE, id |-> 0, is_admin |-> FALSE]

_is_admin_ctx(user_ctx) == user_ctx.is_admin

_is_self_ctx(user_ctx, user_id) == user_ctx.id # 0 /\ user_ctx.id = user_id

User(email, password_hash, team_name, is_admin) ==
    [email |-> email, password_hash |-> password_hash, team_name |-> team_name,
     is_admin |-> is_admin]

\* select(User).where(User.email == email).first(): the id, 0 when there is none
ByEmail(db, email) ==
    IF \E id \in DOMAIN db : db[id].email = email
    THEN CHOOSE id \in DOMAIN db : db[id].email = email
    ELSE 0

\* (ok, db): a verified bcrypt hash is rewritten as PBKDF2 and committed
_verify_and_migrate_if_needed(db, id, raw_password, hash_) ==
    IF _is_bcrypt(hash_)
    THEN IF hash_.raw = raw_password
         THEN [ok |-> TRUE,
               db |-> [db EXCEPT ![id].password_hash = _hash_password(raw_password)]]
         ELSE [ok |-> FALSE, db |-> db]
    ELSE [ok |-> hash_.raw = raw_password, db |-> db]

\* the dict of a user the readers and the login return
UserPublic(db, id) ==
    [id |-> id, email |-> db[id].email, team_name |-> db[id].team_name,
     is_admin |-> db[id].is_admin]

\* <<>> stands for None
get_user_by_email(db, email, caller_ctx) ==
    IF ~_is_admin_ctx(caller_ctx) THEN Outcome(db, <<>>, "")
    ELSE IF ~_norm_email(email).ok THEN Outcome(db, <<>>, "ValueError")
    ELSE LET id == ByEmail(db, _norm_email(email).v)
         IN Outcome(db, IF id = 0 THEN <<>> ELSE <<UserPublic(db, id)>>, "")

get_user_by_id(db, user_id, caller_ctx) ==
    IF ~_is_admin_ctx(caller_ctx) \/ user_id \notin DOMAIN db THEN <<>>
    ELSE <<UserPublic(db, user_id)>>

\* ORDER BY created_at DESC, id DESC: the rows are created in the order of their ids
RECURSIVE UsersDesc(_, _)
UsersDesc(db, S) ==
    IF S = {} THEN <<>>
    ELSE LET top == CHOOSE i \in S : \A j \in S : j <= i
         IN <<UserPublic(db, top)>> \o UsersDesc(db, S \ {top})

list_users(db, caller_ctx) ==
    IF ~_is_admin_ctx(caller_ctx) THEN <<>> ELSE UsersDesc(db, DOMAIN db)

_is_first_user(db) == DOMAIN db = {}

create_user(db, email, raw_password, team_name, caller_ctx) ==
    LET email_n == _norm_email(email)
        pwd == _norm_password(raw_password)
        team_n == _norm_team(team_name)
        is_admin == email_n.v = ADMIN_EMAIL /\ (_is_first_user(db) \/ _is_admin_ctx(caller_ctx))
        uid == NewId(db)
    IN IF ~email_n.ok \/ ~pwd.ok THEN Outcome(db, 0, "ValueError")
       ELSE IF ByEmail(db, email_n.v) # 0 THEN Outcome(db, 0, "ValueError")
       ELSE Outcome(Put(db, uid, User(email_n.v, _hash_password(pwd.v), team_n, is_admin)),
                    uid, "")

\* mutant: the caller is not looked at
set_password_AnyCaller(db, email, new_raw_password, caller_ctx) ==
    LET email_n == _norm_email(email)
        pwd == _norm_password(new_raw_password)
        id == ByEmail(db, email_n.v)
    IN IF ~email_n.ok \/ ~pwd.ok THEN Outcome(db, FALSE, "ValueError")
       ELSE IF id = 0 THEN Outcome(db, FALSE, "")
       ELSE Outcome([db EXCEPT ![id].password_hash = _hash_password(pwd.v)], TRUE, "")

set_password(db, email, new_raw_password, caller_ctx) ==
    LET email_n == _norm_email(email)
        pwd == _norm_password(new_raw_password)
        id == ByEmail(db, email_n.v)
    IN IF ~email_n.ok \/ ~pwd.ok THEN Outcome(db, FALSE, "ValueError")
       ELSE IF id = 0 THEN Outcome(db, FALSE, "")
       ELSE IF ~(_is_admin_ctx(caller_ctx) \/ _is_self_ctx(caller_ctx, id))
       THEN Outcome(db, FALSE, "")
       ELSE Outcome([db EXCEPT ![id].password_hash = _hash_password(pwd.v)], TRUE, "")

update_user_team(db, email, team_name, caller_ctx) ==
    LET email_n == _norm_email(email)
        team_n == _norm_team(team_name)
        id == ByEmail(db, email_n.v)
    IN IF ~email_n.ok THEN Outcome(db, FALSE, "ValueError")
       ELSE IF id = 0 THEN Outcome(db, FALSE, "")
       ELSE IF ~(_is_admin_ctx(caller_ctx) \/ _is_self_ctx(caller_ctx, id))
       THEN Outcome(db, FALSE, "")
       ELSE Outcome([db EXCEPT ![id].team_name = team_n], TRUE, "")

\* mutant: the flag is set as asked
set_admin_flag_AsAsked(db, user_id, is_admin, caller_ctx) ==
    IF ~_is_admin_ctx(caller_ctx) \/ user_id \notin DOMAIN db THEN Outcome(db, FALSE, "")
    ELSE Outcome([db EXCEPT ![user_id].is_admin = is_admin], TRUE, "")

set_admin_flag(db, user_id, is_admin, caller_ctx) ==
    IF ~_is_admin_ctx(caller_ctx) THEN Outcome(db, FALSE, "")
    ELSE IF user_id \notin DOMAIN db THEN Outcome(db, FALSE, "")
    ELSE Outcome([db EXCEPT ![user_id].is_admin =
                      (StripLower(db[user_id].email) = ADMIN_EMAIL)],
                 TRUE, "")

delete_user_by_id(db, user_id, caller_ctx) ==
    IF user_id \notin DOMAIN db THEN Outcome(db, FALSE, "")
    ELSE IF StripLower(db[user_id].email) = ADMIN_EMAIL THEN Outcome(db, FALSE, "")
    ELSE IF ~(_is_admin_ctx(caller_ctx) \/ _is_self_ctx(caller_ctx, user_id))
    THEN Outcome(db, FALSE, "")
    ELSE Outcome(Drop(db, user_id), TRUE, "")

\* mutant: the admin account is deleted like any other
delete_user_by_email_Unprotected(db, email, caller_ctx) ==
    LET email_n == _norm_email(email)
        id == ByEmail(db, email_n.v)
    IN IF ~email_n.ok THEN Outcome(db, FALSE, "ValueError")
       ELSE IF id = 0 THEN Outcome(db, FALSE, "")
       ELSE IF ~(_is_admin_ctx(caller_ctx) \/ _is_self_ctx(caller_ctx, id))
       THEN Outcome(db, FALSE, "")
       ELSE Outcome(Drop(db, id), TRUE, "")

delete_user_by_email(db, email, caller_ctx) ==
    LET email_n == _norm_email(email)
        id == ByEmail(db, email_n.v)
    IN IF ~email_n.ok THEN Outcome(db, FALSE, "ValueError")
       ELSE IF id = 0 THEN Outcome(db, FALSE, "")
       ELSE IF StripLower(db[id].email) = ADMIN_EMAIL THEN Outcome(db, FALSE, "")
       ELSE IF ~(_is_admin_ctx(caller_ctx) \/ _is_self_ctx(caller_ctx, id))
       THEN Outcome(db, FALSE, "")
       ELSE Outcome(Drop(db, id), TRUE, "")

\* (ok, user_public_dict); user <<>> stands for None
Verified(ok, user) == [ok |-> ok, user |-> user]

verify_password_by_email(db, email, raw_password) ==
    LET email_n == _norm_email(email)
        id == ByEmail(db, email_n.v)
    IN IF ~email_n.ok THEN Outcome(db, Verified(FALSE, <<>>), "ValueError")
       ELSE IF id = 0 THEN Outcome(db, Verified(FALSE, <<>>), "")
       ELSE LET v == _verify_and_migrate_if_needed(db, id, raw_password, db[id].password_hash)
                is_admin == StripLower(v.db[id].email) = ADMIN_EMAIL
                after == IF v.db[id].is_admin # is_admin
                         THEN [v.db EXCEPT ![id].is_admin = is_admin]
                         ELSE v.db
            IN IF ~v.ok THEN Outcome(v.db, Verified(FALSE, <<>>), "")
               ELSE Outcome(after, Verified(TRUE, <<UserPublic(after, id)>>), "")

-----------------------------------------------------------------------------
(* SpecUsers: callers of the users repository *)

UserEmails ==
    {"az.analytics.pro@gmail.com", " AZ.Analytics.Pro@Gmail.com ", "bob@club.fr",
     "pas-un-email"}

UserPasswords == {"motdepasse1", "motdepasse2", "court"}

UserTeams == {NoneStr, " A "}

UserIds == 1..MaxUsers

\* no context, and every id with and without the admin flag
UserCallers == {NoUCtx} \cup {UCtx(id, a) : id \in UserIds, a \in BOOLEAN}

\* the last call: its name, its caller, the email or the id it named (and the flag
\* set_admin_flag was given), what it returned
UserCall(op, caller_ctx, email, user_id, o) ==
    [op |-> op, ctx |-> caller_ctx, email |-> email, id |-> user_id, flag |-> FALSE,
     value |-> o.value, raised |-> o.raised]

NoUserVarsChange == UNCHANGED <<players, matches, vin, vout, tables, sess, backend, st>>

CreateUser ==
    \E email \in UserEmails, raw_password \in UserPasswords, team_name \in UserTeams,
       caller_ctx \in UserCallers :
        LET o == create_user(users, email, raw_password, team_name, caller_ctx)
        IN /\ o.raised # "" \/ NewId(users) <= MaxUsers
           /\ users' = o.db
           /\ ret' = UserCall("create_user", caller_ctx, email, 0, o)
           /\ NoUserVarsChange

SetPassword ==
    \E email \in UserEmails, new_raw_password \in UserPasswords, caller_ctx \in UserCallers :
        LET o == set_password(users, email, new_raw_password, caller_ctx)
        IN /\ users' = o.db
           /\ ret' = UserCall("set_password", caller_ctx, email, 0, o)
           /\ NoUserVarsChange

UpdateUserTeam ==
    \E email \in UserEmails, team_name \in UserTeams, caller_ctx \in UserCallers :
        LET o == update_user_team(users, email, team_name, caller_ctx)
        IN /\ users' = o.db
           /\ ret' = UserCall("update_user_team", caller_ctx, email, 0, o)
           /\ NoUserVarsChange

SetAdminFlag ==
    \E user_id \in UserIds, is_admin \in BOOLEAN, caller_ctx \in UserCallers :
        LET o == set_admin_flag(users, user_id, is_admin, caller_ctx)
        IN /\ users' = o.db
           /\ ret' = [UserCall("set_admin_flag", caller_ctx, NoneStr, user_id, o)
                        EXCEPT !.flag = is_admin]
           /\ NoUserVarsChange

DeleteUserById ==
    \E user_id \in UserIds, caller_ctx \in UserCallers :
        LET o == delete_user_by_id(users, user_id, caller_ctx)
        IN /\ users' = o.db
           /\ ret' = UserCall("delete_user_by_id", caller_ctx, NoneStr, user_id, o)
           /\ NoUserVarsChange

DeleteUserByEmail ==
    \E email \in UserEmails, caller_ctx \in UserCallers :
        LET o == delete_user_by_email(users, email, caller_ctx)
        IN /\ users' = o.db
           /\ ret' = UserCall("delete_user_by_email", caller_ctx, email, 0, o)
           /\ NoUserVarsChange

\* verify_password_by_email takes no caller_ctx
VerifyPasswordByEmail ==
    \E email \in UserEmails, raw_password \in UserPasswords :
        LET o == verify_password_by_email(users, email, raw_password)
        IN /\ users' = o.db
           /\ ret' = UserCall("verify_password_by_email", NoUCtx, email, 0, o)
           /\ NoUserVarsChange

InitUsers ==
    /\ users = NoUsers
    /\ players = NoPlayers
    /\ ret = NoRet
    /\ matches = NoMatches
    /\ vin = DefaultMatch
    /\ vout = NoOut
    /\ tables = NoTables
    /\ sess = NoSessions
    /\ backend = "sqlite"
    /\ st = NoSt

NextUsers ==
    \/ CreateUser
    \/ SetPassword
    \/ UpdateUserTeam
    \/ SetAdminFlag
    \/ DeleteUserById
    \/ DeleteUserByEmail
    \/ VerifyPasswordByEmail

SpecUsers == InitUsers /\ [][NextUsers]_vars

-----------------------------------------------------------------------------
(* services/auth_service.py: the session of one browser, the clock, and the users table *)

SESSION_KEY == "auth_user"
FAIL_KEY == "auth_fails"
CSRF_KEY == "csrf_token"
LAST_SEEN_KEY == "auth_last_seen"

WINDOW == 300
LIMIT == 5
SESSION_TTL == 2 * 3600

\* the four keys of the service in st.session_state
AuthKeys == {SESSION_KEY, FAIL_KEY, CSRF_KEY, LAST_SEEN_KEY}

\* what the last call of the service did: its arguments, the value it returned (<<>>
\* stands for None),
\* whether it ended in st.stop() or an exception, and whether login went as far as
\* verify_password_by_email and with what result
AuthCall(op, args, value, raised, verified, ok) ==
    [op |-> op, args |-> args, value |-> value, raised |-> raised, verified |-> verified,
     ok |-> ok]

NoAuthCall == AuthCall("none", <<>>, <<>>, "", FALSE, FALSE)

\* st.session_state: the keys it holds and their values, with time.time() of the run
\* and the last call
SessionState(keys, auth_user, auth_fails, csrf_token, auth_last_seen, now, last) ==
    [keys |-> keys, auth_user |-> auth_user, auth_fails |-> auth_fails,
     csrf_token |-> csrf_token, auth_last_seen |-> auth_last_seen, now |-> now,
     last |-> last]

\* a session that holds nothing, at the first instant of the clock
NoAuthSt == SessionState({}, <<>>, <<>>, NoneStr, 0, 150, NoAuthCall)

\* st.session_state.pop(k, None): the value of an absent key is the default of the model
Pop(s, ks) ==
    [s EXCEPT !.keys = s.keys \ ks,
              !.auth_user = IF SESSION_KEY \in ks THEN <<>> ELSE @,
              !.auth_fails = IF FAIL_KEY \in ks THEN <<>> ELSE @,
              !.csrf_token = IF CSRF_KEY \in ks THEN NoneStr ELSE @,
              !.auth_last_seen = IF LAST_SEEN_KEY \in ks THEN 0 ELSE @]

\* mutant: a failure leaves the window one tick too early
RecentFails_ShortWindow(s) == SelectSeq(s.auth_fails, LAMBDA t : s.now - t < WINDOW - 150)

\* [t for t in st.session_state.get(FAIL_KEY, []) if now - t < WINDOW]
RecentFails(s) == SelectSeq(s.auth_fails, LAMBDA t : s.now - t < WINDOW)

\* _too_many_fails(): the session with the filtered list stored, and the verdict
_too_many_fails(s) ==
    [st |-> [s EXCEPT !.keys = @ \cup {FAIL_KEY}, !.auth_fails = RecentFails(s)],
     value |-> Len(RecentFails(s)) >= LIMIT]

_record_fail(s) ==
    [s EXCEPT !.keys = @ \cup {FAIL_KEY}, !.auth_fails = Append(@, s.now)]

_reset_fails(s) == Pop(s, {FAIL_KEY})

\* _issue_csrf(): the token is kept when there is one
_issue_csrf(s, fresh) ==
    IF CSRF_KEY \in s.keys THEN s
    ELSE [s EXCEPT !.keys = @ \cup {CSRF_KEY}, !.csrf_token = fresh]

logout(s) == Pop(s, AuthKeys)

\* mutant: the session expires at SESSION_TTL already
_expire_session_if_needed_AtTtl(s) ==
    IF LAST_SEEN_KEY \in s.keys /\ s.auth_last_seen # 0
       /\ s.now - s.auth_last_seen >= SESSION_TTL
    THEN [st |-> logout(s), stopped |-> TRUE]
    ELSE [st |-> [s EXCEPT !.keys = @ \cup {LAST_SEEN_KEY}, !.auth_last_seen = s.now],
          stopped |-> FALSE]

\* the session after the call, and whether the call ended in st.stop()
_expire_session_if_needed(s) ==
    IF LAST_SEEN_KEY \in s.keys /\ s.auth_last_seen # 0
       /\ s.now - s.auth_last_seen > SESSION_TTL
    THEN [st |-> logout(s), stopped |-> TRUE]
    ELSE [st |-> [s EXCEPT !.keys = @ \cup {LAST_SEEN_KEY}, !.auth_last_seen = s.now],
          stopped |-> FALSE]

\* current_user(): st.stop() raises StopException, so an expired session returns nothing
current_user(s) ==
    IF SESSION_KEY \in s.keys /\ s.auth_user # <<>>
    THEN LET e == _expire_session_if_needed(s)
         IN IF e.stopped
            THEN [e.st EXCEPT !.last = AuthCall("current_user", <<>>, <<>>, "StopException", FALSE, FALSE)]
            ELSE [e.st EXCEPT !.last = AuthCall("current_user", <<>>, s.auth_user, "", FALSE, FALSE)]
    ELSE [s EXCEPT !.last = AuthCall("current_user", <<>>, <<>>, "", FALSE, FALSE)]

\* login(email, password): the session and the users table after it
login(s, db, email, password, fresh) ==
    LET t == _too_many_fails(s)
        email_norm == StripLower(StrOr(email, ""))
        o == verify_password_by_email(db, email_norm, StrOr(password, ""))
    IN IF t.value
       THEN [st |-> [t.st EXCEPT !.last = AuthCall("login", <<email, password>>, FALSE, "", FALSE, FALSE)],
             db |-> db]
       ELSE IF o.raised # ""
       THEN [st |-> [t.st EXCEPT !.last = AuthCall("login", <<email, password>>, FALSE, o.raised, TRUE, FALSE)],
             db |-> o.db]
       ELSE IF ~o.value.ok
       THEN [st |-> [_record_fail(t.st) EXCEPT
                        !.last = AuthCall("login", <<email, password>>, FALSE, "", TRUE, FALSE)],
             db |-> o.db]
       ELSE LET a == _reset_fails(t.st)
                b == [a EXCEPT !.keys = @ \cup {SESSION_KEY, LAST_SEEN_KEY},
                               !.auth_user = o.value.user,
                               !.auth_last_seen = s.now]
            IN [st |-> [_issue_csrf(b, fresh) EXCEPT
                           !.last = AuthCall("login", <<email, password>>, TRUE, "", TRUE, TRUE)],
                db |-> o.db]

-----------------------------------------------------------------------------
(* SpecAuth: one session calling the service while the clock advances *)

\* the accounts of the table: the administrator, created first, and a user
SeededUsers ==
    create_user(create_user(NoUsers, ADMIN_EMAIL, "motdepasse1", NoneStr, NoUCtx).db,
                "bob@club.fr", "motdepasse2", " A ", NoUCtx).db

LoginEmails == {"bob@club.fr", "Bob@Club.fr", "pas-un-email"}
LoginPasswords == {"motdepasse2", "court"}

\* the clock advances by half a window while the user is active, or by the lifetime
\* of a session when the user comes back later
Ticks == {150, SESSION_TTL}

\* the seconds since the user came back
SinceBack(now) == (now - NoAuthSt.now) % SESSION_TTL

NoAuthVarsChange == UNCHANGED <<players, repovars, tables, sess, backend>>

Tick ==
    \E d \in Ticks :
        /\ st.now + d <= MaxClock
        /\ d < SESSION_TTL => SinceBack(st.now) + d <= MaxBurst
        /\ st' = [st EXCEPT !.now = @ + d, !.last = NoAuthCall]
        /\ UNCHANGED users
        /\ NoAuthVarsChange

CallLogin ==
    \E email \in LoginEmails, password \in LoginPasswords, fresh \in Tokens :
        LET r == login(st, users, email, password, fresh)
        IN /\ st' = r.st
           /\ users' = r.db
           /\ NoAuthVarsChange

CallCurrentUser ==
    /\ st' = current_user(st)
    /\ UNCHANGED users
    /\ NoAuthVarsChange

CallLogout ==
    /\ st' = [logout(st) EXCEPT !.last = AuthCall("logout", <<>>, <<>>, "", FALSE, FALSE)]
    /\ UNCHANGED users
    /\ NoAuthVarsChange

InitAuth ==
    /\ st = NoAuthSt
    /\ users = SeededUsers
    /\ players = NoPlayers
    /\ ret = NoRet
    /\ matches = NoMatches
    /\ vin = DefaultMatch
    /\ vout = NoOut
    /\ tables = NoTables
    /\ sess = NoSessions
    /\ backend = "sqlite"

NextAuth ==
    \/ Tick
    \/ CallLogin
    \/ CallCurrentUser
    \/ CallLogout

SpecAuth == InitAuth /\ [][NextAuth]_vars

-----------------------------------------------------------------------------
(* core/repos/players_repo.py on the players table *)

\* a row of players; the table maps the ids to the rows
Player(name, club, active) == [name |-> name, club |-> club, active |-> active]

\* uq_player_club_name
PlayersUnique(db) ==
    \A i, j \in DOMAIN db :
        db[i].club = db[j].club /\ db[i].name = db[j].name => i = j

\* select(Player).where(Player.club == club, Player.name == name).scalar_one_or_none():
\* the id, 0 when there is none. The session does not autoflush (SessionLocal), so
\* the select reads the rows of the table and none of the objects added since.
ByClubName(db, club, name) ==
    IF \E id \in DOMAIN db : db[id].club = club /\ db[id].name = name
    THEN CHOOSE id \in DOMAIN db : db[id].club = club /\ db[id].name = name
    ELSE 0

\* clean = [n.strip() for n in (names or []) if n and str(n).strip()]
RECURSIVE CleanNames(_)
CleanNames(names) ==
    IF names = <<>> THEN <<>>
    ELSE LET n == Head(names)
         IN IF n # NoneStr /\ n # "" /\ Strip(n) # ""
            THEN <<Strip(n)>> \o CleanNames(Tail(names))
            ELSE CleanNames(Tail(names))

\* the loop of upsert_players: the objects added to the session, the rows whose
\* active flag was set, and the counter
RECURSIVE UpsertLoop(_, _, _, _)
UpsertLoop(db, club, clean, acc) ==
    IF clean = <<>> THEN acc
    ELSE LET name_norm == RepoSafeStr(Head(clean), NAME_MAX)
             existing == ByClubName(db, club, name_norm)
         IN IF name_norm = NoneStr THEN UpsertLoop(db, club, Tail(clean), acc)
            ELSE IF existing = 0
            THEN UpsertLoop(db, club, Tail(clean),
                            [acc EXCEPT !.added = Append(@, Player(name_norm, club, TRUE)),
                                        !.inserted = @ + 1])
            ELSE IF ~db[existing].active
            THEN UpsertLoop(db, club, Tail(clean),
                            [acc EXCEPT !.reactivated = @ \cup {existing}])
            ELSE UpsertLoop(db, club, Tail(clean), acc)

\* the flush of s.commit(): the INSERTs of the added objects, in order
RECURSIVE FlushAdded(_, _)
FlushAdded(db, added) ==
    IF added = <<>> THEN db
    ELSE FlushAdded(Put(db, NewId(db), Head(added)), Tail(added))

upsert_players(db, names, user_ctx) ==
    LET clean == CleanNames(names)
        club == RepoSafeStr(_user_team_name(user_ctx), CLUB_MAX)
    IN IF clean = <<>> THEN Outcome(db, 0, "")
       ELSE IF club = NoneStr THEN Outcome(db, 0, "")
       ELSE LET acc == UpsertLoop(db, club, clean,
                                  [added |-> <<>>, reactivated |-> {}, inserted |-> 0])
                updated == [id \in DOMAIN db |->
                               IF id \in acc.reactivated
                               THEN [db[id] EXCEPT !.active = TRUE] ELSE db[id]]
                flushed == FlushAdded(updated, acc.added)
            IN IF PlayersUnique(flushed)
               THEN Outcome(flushed, acc.inserted, "")
               ELSE Outcome(db, 0, "IntegrityError")

_authorized_for_player(user_ctx, p) ==
    \/ _is_admin(user_ctx)
    \/ LET team == Strip(_user_team_name(user_ctx)) IN team # "" /\ p.club = team

deactivate_player(db, player_id, user_ctx) ==
    IF player_id \notin DOMAIN db \/ ~_authorized_for_player(user_ctx, db[player_id])
    THEN Outcome(db, FALSE, "")
    ELSE Outcome([db EXCEPT ![player_id].active = FALSE], TRUE, "")

delete_player(db, player_id, user_ctx) ==
    IF player_id \notin DOMAIN db \/ ~_authorized_for_player(user_ctx, db[player_id])
    THEN Outcome(db, FALSE, "")
    ELSE Outcome(Drop(db, player_id), TRUE, "")

-----------------------------------------------------------------------------
(* SpecPlayers: callers of the players repository *)

PlayerNames == {"lucas", " lucas ", "Simon", "  "}
PlayerLists == {<<>>} \cup {<<a>> : a \in PlayerNames}
                      \cup {<<a, b>> : a, b \in PlayerNames}
PlayerIds == 1..MaxPlayers
PlayerCallers == {UserA, UserB, NoCtx}

\* the last call: its name, its caller, the list or the id it was given, what it
\* returned, and the table it was called on
PlayerCall(op, user_ctx, names, player_id, before, o) ==
    [op |-> op, ctx |-> user_ctx, names |-> names, id |-> player_id, before |-> before,
     value |-> o.value, raised |-> o.raised]

NoPlayerVarsChange == UNCHANGED <<users, matches, vin, vout, tables, sess, backend, st>>

UpsertPlayers ==
    \E names \in PlayerLists, user_ctx \in PlayerCallers :
        LET o == upsert_players(players, names, user_ctx)
        IN /\ \A id \in DOMAIN o.db : id <= MaxPlayers
           /\ players' = o.db
           /\ ret' = PlayerCall("upsert_players", user_ctx, names, 0, players, o)
           /\ NoPlayerVarsChange

DeactivatePlayer ==
    \E player_id \in PlayerIds, user_ctx \in PlayerCallers :
        LET o == deactivate_player(players, player_id, user_ctx)
        IN /\ players' = o.db
           /\ ret' = PlayerCall("deactivate_player", user_ctx, <<>>, player_id, players, o)
           /\ NoPlayerVarsChange

DeletePlayer ==
    \E player_id \in PlayerIds, user_ctx \in PlayerCallers :
        LET o == delete_player(players, player_id, user_ctx)
        IN /\ players' = o.db
           /\ ret' = PlayerCall("delete_player", user_ctx, <<>>, player_id, players, o)
           /\ NoPlayerVarsChange

InitPlayers ==
    /\ players = NoPlayers
    /\ users = NoUsers
    /\ ret = NoRet
    /\ matches = NoMatches
    /\ vin = DefaultMatch
    /\ vout = NoOut
    /\ tables = NoTables
    /\ sess = NoSessions
    /\ backend = "sqlite"
    /\ st = NoSt

NextPlayers ==
    \/ UpsertPlayers
    \/ DeactivatePlayer
    \/ DeletePlayer

SpecPlayers == InitPlayers /\ [][NextPlayers]_vars

-----------------------------------------------------------------------------
(* Claims about the validators, checked under SpecV *)

CountIf(s, P(_)) == Cardinality({i \in DOMAIN s : P(s[i])})

Codes(issues) == {issues[i].code : i \in DOMAIN issues}

\* the issues of the passes validate_match executes on (m, side, name): the quarter
\* passes when there are quarters, the player passes when there are player-stat rows
C3_PassIssues(m, side, name) ==
    validate_match_structure(m) \o validate_date_and_season(m)
    \o (IF Len(m.quarters) > 0
        THEN validate_quarter_values(m.quarters) \o validate_quarter_sequence(m.quarters)
             \o validate_match_quarters_vs_totals(m)
        ELSE <<>>)
    \o (IF Len(m.player_stats) > 0
        THEN validate_player_rows(m.player_stats) \o validate_duplicate_players(m.player_stats)
             \o validate_players_vs_declared(m, side, name)
        ELSE <<>>)

\* C3: validate_match returns (ok, errors, warnings) with ok true iff errors is empty;
\* every issue of every executed pass is in exactly one of the two lists (as often as
\* the passes produced it); warnings holds exactly the issues of severity warning and
\* errors all the others.
C3_ValidateMatchSplit ==
    vout.fn = "validate_match" =>
        LET r == vout.res
            produced == C3_PassIssues(vin, vout.team_side, vout.team_name)
        IN /\ r.ok <=> (r.errors = <<>>)
           /\ \A x \in Range(produced) \cup Range(r.errors) \cup Range(r.warnings) :
                 Count(r.errors, x) + Count(r.warnings, x) = Count(produced, x)
           /\ \A x \in Range(r.warnings) : x.severity = "warning"
           /\ \A x \in Range(r.errors) : x.severity # "warning"
           /\ r.warnings = SelectSeq(produced, LAMBDA x : x.severity = "warning")
           /\ r.errors = SelectSeq(produced, LAMBDA x : x.severity # "warning")

\* a call that returned both errors and warnings, from quarter and player passes
C3_Witness ==
    /\ vout.fn = "validate_match"
    /\ ~vout.res.ok
    /\ Len(vout.res.errors) >= 2
    /\ Len(vout.res.warnings) >= 2
    /\ "quarter.home_points.formula" \in Codes(vout.res.errors)
    /\ "players.duplicates" \in Codes(vout.res.warnings)

\* C4: with at least one quarter, validate_match_quarters_vs_totals reports the home
\* mismatch error iff the quarters' home_points do not sum to total_home_points and the
\* away mismatch error iff the away_points do not sum to total_away_points, each side
\* on its own; with no quarters it reports nothing.
C4_QuartersVsTotals ==
    vout.fn = "validate_match_quarters_vs_totals" =>
        LET r == vout.res
            qs == vin.quarters
            sumHome == SumSeq([i \in DOMAIN qs |-> qs[i].home_points])
            sumAway == SumSeq([i \in DOMAIN qs |-> qs[i].away_points])
            isHome(x) == x.code = "match.totals.home_mismatch" /\ x.severity = "error"
            isAway(x) == x.code = "match.totals.away_mismatch" /\ x.severity = "error"
        IN IF Len(qs) = 0 THEN r = <<>>
           ELSE /\ CountIf(r, isHome) = (IF sumHome # vin.total_home_points THEN 1 ELSE 0)
                /\ CountIf(r, isAway) = (IF sumAway # vin.total_away_points THEN 1 ELSE 0)
                /\ \A i \in DOMAIN r : isHome(r[i]) \/ isAway(r[i])

\* quarters summing to (20, 18) against declared totals (20, 20): away error only
C4_Witness ==
    /\ vout.fn = "validate_match_quarters_vs_totals"
    /\ Len(vin.quarters) = 1
    /\ vin.quarters[1].home_points = 20 /\ vin.quarters[1].away_points = 18
    /\ vin.total_home_points = 20 /\ vin.total_away_points = 20
    /\ Codes(vout.res) = {"match.totals.away_mismatch"}

\* the side of the team the call names: the side itself, or the side whose club is
\* team_name (home when it is home_club, else away when it is away_club)
C5_Side(m, side, name) ==
    IF side \in {"home", "away"} THEN side
    ELSE IF name = m.home_club THEN "home"
    ELSE IF name = m.away_club THEN "away"
    ELSE "unknown"

C5_Holds(m, side, name, issues) ==
    LET rows == m.player_stats
        sumPlayers == SumSeq([i \in DOMAIN rows |-> rows[i].points])
        teamSide == C5_Side(m, side, name)
        declared == IF teamSide = "home" THEN m.total_home_points ELSE m.total_away_points
        isErr(x) == x.code = "players.sum_vs_declared" /\ x.severity = "error"
    IN /\ Len(rows) = 0 =>
            \A i \in DOMAIN issues :
                issues[i].code \notin {"players.sum_vs_declared", "players.sum_vs_declared.skipped"}
       /\ (Len(rows) > 0 /\ teamSide # "unknown") =>
            /\ CountIf(issues, isErr) = (IF sumPlayers # declared THEN 1 ELSE 0)
            /\ "players.sum_vs_declared.skipped" \notin Codes(issues)

\* C5: for a match with player-stat rows and a team that is its home or away club,
\* validation reports the error players.sum_vs_declared iff the rows' points do not sum
\* to the declared total of that team's side; the check runs whenever rows exist and
\* is silent when there are none.
C5_PlayersVsDeclared ==
    /\ vout.fn = "validate_players_vs_declared" =>
          C5_Holds(vin, vout.team_side, vout.team_name, vout.res)
    /\ vout.fn = "validate_match" =>
          C5_Holds(vin, vout.team_side, vout.team_name,
                   vout.res.errors \o vout.res.warnings)

\* rows summing to 27 for the home team against a declared home total of 20
C5_Witness ==
    /\ vout.fn = "validate_match"
    /\ vout.team_name = "A" /\ vin.home_club = "A" /\ vin.away_club = "B"
    /\ SumSeq([i \in DOMAIN vin.player_stats |-> vin.player_stats[i].points]) = 27
    /\ vin.total_home_points = 20 /\ vin.total_away_points = 20
    /\ \E i \in DOMAIN vout.res.errors :
          /\ vout.res.errors[i].code = "players.sum_vs_declared"
          /\ vout.res.errors[i].ref = 27

\* C6: for every quarter validate_quarter_values produces exactly one formula error for
\* home_points iff home_points # 6*home_goals + home_behinds, exactly one for away_points
\* iff away_points # 6*away_goals + away_behinds, one field-invalid error for each of the
\* six fields that is negative, and for soft-ceiling excesses warnings only.
C6_QuarterValues ==
    vout.fn = "validate_quarter_values" =>
        LET r == vout.res
            qs == vin.quarters
            nums == {qs[i].q : i \in DOMAIN qs}
            fieldNames == {"home_goals", "home_behinds", "home_points",
                           "away_goals", "away_behinds", "away_points"}
            fieldOf(q, f) ==
                CASE f = "home_goals" -> q.home_goals [] f = "home_behinds" -> q.home_behinds
                  [] f = "home_points" -> q.home_points [] f = "away_goals" -> q.away_goals
                  [] f = "away_behinds" -> q.away_behinds [] OTHER -> q.away_points
        IN /\ \A n \in nums :
                /\ CountIf(r, LAMBDA x : x.code = "quarter.home_points.formula"
                                         /\ x.severity = "error" /\ x.ref = n
                                         /\ x.field_name = "home_points")
                   = CountIf(qs, LAMBDA q : q.q = n
                                 /\ q.home_points # 6 * q.home_goals + q.home_behinds)
                /\ CountIf(r, LAMBDA x : x.code = "quarter.away_points.formula"
                                         /\ x.severity = "error" /\ x.ref = n
                                         /\ x.field_name = "away_points")
                   = CountIf(qs, LAMBDA q : q.q = n
                                 /\ q.away_points # 6 * q.away_goals + q.away_behinds)
                /\ \A f \in fieldNames :
                      CountIf(r, LAMBDA x : x.code = "quarter.field.invalid"
                                            /\ x.severity = "error" /\ x.ref = n
                                            /\ x.field_name = f)
                      = CountIf(qs, LAMBDA q : q.q = n /\ fieldOf(q, f) < 0)
           /\ \A i \in DOMAIN r :
                /\ r[i].ref \in nums
                /\ r[i].code \in {"quarter.home_points.formula", "quarter.away_points.formula",
                                  "quarter.field.invalid", "quarter.goals.unusually_high",
                                  "quarter.behinds.unusually_high", "quarter.points.unusually_high"}
                /\ r[i].code \in {"quarter.goals.unusually_high", "quarter.behinds.unusually_high",
                                  "quarter.points.unusually_high"} => r[i].severity = "warning"

\* the quarter home 3.2 (19): one formula error for home_points and nothing else
C6_Witness ==
    /\ vout.fn = "validate_quarter_values"
    /\ Len(vin.quarters) = 1
    /\ vin.quarters[1].home_goals = 3 /\ vin.quarters[1].home_behinds = 2
    /\ vin.quarters[1].home_points = 19
    /\ Len(vout.res) = 1
    /\ vout.res[1].code = "quarter.home_points.formula"

\* the normalized name of a player row: trimmed and lower-cased, "" when absent
C18_Norm(r) == Lower(Strip(StrOr(r.player_name, "")))

\* the non-empty normalized names carried by at least two rows
C18_Repeated(rows) ==
    {n \in {C18_Norm(rows[i]) : i \in DOMAIN rows} :
        n # "" /\ \E i, j \in DOMAIN rows : i # j /\ C18_Norm(rows[i]) = n /\ C18_Norm(rows[j]) = n}

\* C18: validate_duplicate_players returns exactly one issue, a warning that lists the
\* normalized names occurring more than once, iff at least two rows have the same non-empty
\* normalized name; otherwise it returns no issue; it never returns an error.
C18_DuplicatePlayers ==
    vout.fn = "validate_duplicate_players" =>
        LET rep == C18_Repeated(vin.player_stats)
        IN /\ (rep # {}) <=> (Len(vout.res) = 1)
           /\ rep = {} => vout.res = <<>>
           /\ \A i \in DOMAIN vout.res :
                 /\ vout.res[i].severity = "warning"
                 /\ vout.res[i].code = "players.duplicates"
                 /\ vout.res[i].names = rep

\* "Lucas" and " lucas " and twice "Bob": one warning listing both normalized names
C18_Witness ==
    /\ vout.fn = "validate_duplicate_players"
    /\ Len(vout.res) = 1
    /\ vout.res[1].names = {"lucas", "bob"}
    /\ \E i \in DOMAIN vin.player_stats : vin.player_stats[i].player_name = " lucas "

\* the numbers of a list of quarters
C19_Numbers(quarters) == {quarters[i].q : i \in DOMAIN quarters}

\* how many issues of a list carry this code and this quarter number
C19_Issues(issues, code, ref) ==
    Cardinality({i \in DOMAIN issues : issues[i].code = code /\ issues[i].ref = ref})

\* C19: for a non-empty list of quarters validate_quarter_sequence returns only warnings:
\* one duplicate warning for each number occurring more than once, a missing warning iff a
\* number of {1,2,3,4} does not occur, an unexpected warning iff a number outside {1,2,3,4}
\* occurs, and nothing else; for the empty list it returns nothing.
C19_QuarterSequence ==
    vout.fn = "validate_quarter_sequence" =>
        LET qs == vin.quarters
            got == C19_Numbers(qs)
            repeated == {n \in got : Cardinality({i \in DOMAIN qs : qs[i].q = n}) > 1}
            missing == IF {1, 2, 3, 4} \ got # {} THEN 1 ELSE 0
            unexpected == IF got \ {1, 2, 3, 4} # {} THEN 1 ELSE 0
        IN IF qs = <<>> THEN vout.res = <<>>
           ELSE /\ \A i \in DOMAIN vout.res : vout.res[i].severity = "warning"
                /\ \A n \in 1..5 :
                      C19_Issues(vout.res, "quarters.duplicate_number", n)
                          = (IF n \in repeated THEN 1 ELSE 0)
                /\ C19_Issues(vout.res, "quarters.missing", 0) = missing
                /\ C19_Issues(vout.res, "quarters.unexpected", 0) = unexpected
                /\ Len(vout.res) = Cardinality(repeated) + missing + unexpected

\* quarters 1, 2, 3, 4, 4: a duplicate warning for 4 and no missing warning
C19_Witness ==
    /\ vout.fn = "validate_quarter_sequence"
    /\ C19_Numbers(vin.quarters) = {1, 2, 3, 4}
    /\ Len(vin.quarters) = 5
    /\ Len(vout.res) = 1
    /\ vout.res[1].code = "quarters.duplicate_number"

\* C20: a match with no quarters and no player rows whose home_club, away_club and
\* season_id are non-empty strings (not blank once trimmed, as _non_empty_str tests),
\* whose date is present and whose two totals are non-negative passes validate_match
\* with ok = true, whatever the season format, the year of the date or a future date.
C20_MinimalMatchIsOk ==
    (/\ vout.fn = "validate_match"
     /\ vin.quarters = <<>> /\ vin.player_stats = <<>>
     /\ NonEmptyStr(vin.home_club) /\ NonEmptyStr(vin.away_club) /\ NonEmptyStr(vin.season_id)
     /\ vin.date # NoDate
     /\ vin.total_home_points >= 0 /\ vin.total_away_points >= 0)
    => (vout.res.ok /\ vout.res.errors = <<>>)

\* season "S1" with a future date: accepted with warnings only
C20_Witness ==
    /\ vout.fn = "validate_match"
    /\ vin.quarters = <<>> /\ vin.player_stats = <<>>
    /\ vin.season_id = "S1" /\ vin.date = Date(2025, 3)
    /\ vin.home_club = "A" /\ vin.away_club = "B"
    /\ vin.total_home_points = 0 /\ vin.total_away_points = 20
    /\ vout.res.ok
    /\ Len(vout.res.warnings) >= 2

-----------------------------------------------------------------------------
(* Claims about the service and the entry page, checked under SpecSvc *)

\* what validate_match says, for a caller, of the match the service has prepared
SvcValidation(user_ctx) ==
    validate_match(Prepared(vin), TeamSideOf(user_ctx, Prepared(vin)), NoneStr)

C1_Accepted(user_ctx) ==
    /\ validate_match(vin, TeamSideOf(user_ctx, vin), NoneStr).ok
    /\ SvcValidation(user_ctx).ok

C1_MayCreate(user_ctx) ==
    /\ ~user_ctx.none
    /\ \/ user_ctx.is_admin
       \/ user_ctx.team_name \in {vin.home_club, vin.away_club}

\* C1: when save_post_match has been called with a candidate that validate_match
\* accepts, by an admin or by a user whose team is the candidate's home or away club,
\* it returned (True, [], new_id) and new_id is the id of the prepared match, now stored.
C1_SaveStoresAcceptedMatch ==
    (ret.op = "save_post_match" /\ C1_Accepted(ret.ctx) /\ C1_MayCreate(ret.ctx))
        => /\ ret.value.ok
           /\ ret.value.errors = <<>>
           /\ ret.value.new_id \in DOMAIN matches
           /\ matches[ret.value.new_id] = Prepared(vin)

IsValidationString(str) == str[1] \in {"err", "warn"}

\* C2: a call of save_post_match on a candidate with at least one validation error
\* returns (False, the error strings, None) and leaves the database as it was; the
\* entry page disables its save button exactly when validation reports an error, and
\* a disabled button takes no click; a candidate without errors (warnings or not) is
\* never answered with validation strings.
C2_ErrorsBlockSave ==
    [][ /\ (ret'.op = "save_post_match" /\ SvcValidation(ret'.ctx).errors # <<>>)
            => /\ ret'.value = SaveResult(FALSE,
                                  issues_as_strings(SvcValidation(ret'.ctx).errors), 0)
               /\ ret'.raised = ""
               /\ matches' = matches
        /\ (ret'.op = "save_post_match" /\ SvcValidation(ret'.ctx).errors = <<>>)
            => \A i \in DOMAIN ret'.value.errors : ~IsValidationString(ret'.value.errors[i])
        /\ vout'.fn = "Saisie_post_match"
            => (vout'.disabled <=> vout'.res.errors # <<>>)
        /\ (vout.fn = "Saisie_post_match" /\ vout.disabled /\ ret'.op = "click_save")
            => (ret' = ret /\ matches' = matches)
      ]_vars

\* C2 witness: a save of a candidate with errors was refused while the database holds
\* a match, and the page shows a disabled button
C2_Witness ==
    /\ ret.op = "save_post_match"
    /\ SvcValidation(ret.ctx).errors # <<>>
    /\ ~ret.value.ok
    /\ ret.value.errors # <<>>
    /\ matches # NoMatches
    /\ vout.fn = "Saisie_post_match"
    /\ vout.disabled

-----------------------------------------------------------------------------
(* Claims about the matches repository, checked under Spec *)

C7_Teams == {"A", "B", "C"}
C7_Seasons == {"2025", "2024", " 2025", "  "}
C7_Limits == {0, 1, 2}
C7_Players == {NoPlayer, 1}
C7_Dates == {Date(2024, 1), Date(2025, 1), Date(2025, 2)}
C7_Columns == {"goals", "behinds", "points"}

\* the stored matches that involve team T
C7_Visible(T) == {id \in DOMAIN matches : matches[id].home_club = T \/ matches[id].away_club = T}

C7_Ids(dicts) == {dicts[i].id : i \in DOMAIN dicts}

C7_InSeason(S, season_id) ==
    {id \in S : matches[id].season_id = StrOr(RepoSafeStr(season_id, SEASON_MAX), "")}

C7_UserReads(T) ==
    LET u == Ctx(FALSE, T)
        V == C7_Visible(T)
    IN /\ \A id \in MatchIds :
            /\ C7_Ids(get_match(matches, id, u)) \subseteq V
            /\ get_quarters_in_match(matches, id, u) # <<>> => id \in V
            /\ get_player_stats_in_match(matches, id, u) # <<>> => id \in V
       /\ \A limit \in C7_Limits :
            /\ C7_Ids(list_matches(matches, limit, u)) \subseteq V
            /\ \A team_name \in C7_Teams \cup {NoneStr} :
                  C7_Ids(list_matches_for_team(matches, team_name, limit, u)) \subseteq V
       /\ C7_Ids(get_latest_match(matches, u)) \subseteq V
       /\ C7_Ids(get_earliest_match(matches, u)) \subseteq V
       /\ list_all_seasons(matches, u) \subseteq {matches[id].season_id : id \in V}
       /\ count_matches(matches, u) = Cardinality(V)
       /\ count_all_matches(matches, u) = Cardinality(V)
       /\ \A season_id \in C7_Seasons :
            /\ C7_Ids(list_matches_by_season(matches, season_id, u)) \subseteq V
            /\ count_matches_in_season(matches, season_id, u)
                  = Cardinality(C7_InSeason(V, season_id))
       /\ \A d1, d2 \in C7_Dates :
            C7_Ids(get_matches_in_date_range(matches, d1, d2, u)) \subseteq V
       /\ \A player_id \in C7_Players :
            /\ C7_Ids(get_matches_for_player(matches, player_id, u)) \subseteq V
            /\ \A season_id \in C7_Seasons :
                  C7_Ids(get_matches_for_player_in_season(matches, player_id, season_id, u))
                      \subseteq V
            /\ \A column \in C7_Columns :
                  /\ get_total_for_player(matches, column, player_id, u)
                        = SumOver(matches, V, player_id, column)
                  /\ \A season_id \in C7_Seasons :
                        get_total_for_player_in_season(matches, column, player_id, season_id, u)
                            = SumOver(matches, C7_InSeason(V, season_id), player_id, column)

C7_AdminReads ==
    LET all == DOMAIN matches
    IN /\ \A id \in all : C7_Ids(get_match(matches, id, Admin)) = {id}
       /\ C7_Ids(list_matches(matches, 0, Admin)) = all
       /\ count_matches(matches, Admin) = Cardinality(all)
       /\ \A T \in C7_Teams :
            C7_Ids(list_matches_for_team(matches, T, 0, Admin)) = C7_Visible(T)
       /\ \A season_id \in C7_Seasons :
            /\ C7_Ids(list_matches_by_season(matches, season_id, Admin))
                  = C7_InSeason(all, season_id)
            /\ count_matches_in_season(matches, season_id, Admin)
                  = Cardinality(C7_InSeason(all, season_id))
       /\ \A player_id \in C7_Players, column \in C7_Columns :
            get_total_for_player(matches, column, player_id, Admin)
                = SumOver(matches, all, player_id, column)
       /\ \A id \in all :
            Len(get_quarters_in_match(matches, id, Admin)) = Len(matches[id].quarters)

\* C7: in every database state, for a non-admin user of team T every read operation of
\* the matches repository returns only matches whose home or away club is T, and every
\* count or total is taken over those matches only; an admin gets the unfiltered result.
C7_ReadsAreFiltered ==
    /\ \A T \in C7_Teams : C7_UserReads(T)
    /\ C7_AdminReads

\* C7 witness: the database holds a match of team A and a match without team A, so
\* that the filter has something to hide from the user and nothing to hide from the admin
C7_Witness ==
    /\ C7_Visible("A") # {}
    /\ DOMAIN matches \ C7_Visible("A") # {}
    /\ count_matches(matches, UserA) < count_matches(matches, Admin)
    /\ \E id \in DOMAIN matches : matches[id].player_stats # <<>>

\* C8: no repository operation answers a caller who is not allowed to perform it with
\* an exception: none raises PermissionError.
C8_NoAuthorizationException ==
    ret.raised # "PermissionError"

C9_PerMatchMutators ==
    {"delete_match", "update_match", "update_match_fields", "replace_player_stats_for_match"}

\* the caller is neither an admin nor a user whose team is a club of the stored match
C9_Unauthorized(user_ctx, db, match_id) ==
    /\ match_id \in DOMAIN db
    /\ ~user_ctx.is_admin
    /\ user_ctx.team_name \notin {db[match_id].home_club, db[match_id].away_club}

\* C9: a per-match mutator called on a stored match by a caller who is neither an admin
\* nor of one of its clubs returns False without raising and leaves the whole database
\* as it was; delete_all_matches called by a non-admin returns 0 and changes nothing.
C9_UnauthorizedMutatorsChangeNothing ==
    [][ /\ (ret'.op \in C9_PerMatchMutators /\ C9_Unauthorized(ret'.ctx, matches, ret'.id))
            => (matches' = matches /\ ret'.raised = "" /\ ret'.value = FALSE)
        /\ (ret'.op = "delete_all_matches" /\ ~ret'.ctx.is_admin)
            => (matches' = matches /\ ret'.raised = "" /\ ret'.value = 0)
      ]_vars

\* C9 witness: a user of team A has just called a per-match mutator on a stored match
\* with quarters and player rows in which A does not play
C9_Witness ==
    /\ ret.op \in C9_PerMatchMutators
    /\ ret.ctx = UserA
    /\ C9_Unauthorized(ret.ctx, matches, ret.id)
    /\ matches[ret.id].quarters # <<>>
    /\ matches[ret.id].player_stats # <<>>
    /\ ret.value = FALSE

\* C10: every stored match with at least one quarter has each total equal to the sum
\* of its quarters' points on that side.
C10_TotalsAreQuarterSums ==
    \A id \in DOMAIN matches :
        matches[id].quarters # <<>>
            => /\ matches[id].total_home_points
                    = SumSeq([i \in DOMAIN matches[id].quarters |->
                                 matches[id].quarters[i].home_points])
               /\ matches[id].total_away_points
                    = SumSeq([i \in DOMAIN matches[id].quarters |->
                                 matches[id].quarters[i].away_points])

\* C11: every stored quarter has, on each side, points = 6*goals + behinds, and every
\* stored player-stat row has points = 6*goals + behinds.
C11_StoredPointsFollowFormula ==
    \A id \in DOMAIN matches :
        /\ \A i \in DOMAIN matches[id].quarters :
              LET q == matches[id].quarters[i]
              IN /\ q.home_points = 6 * q.home_goals + q.home_behinds
                 /\ q.away_points = 6 * q.away_goals + q.away_behinds
        /\ \A i \in DOMAIN matches[id].player_stats :
              LET r == matches[id].player_stats[i]
              IN r.points = 6 * r.goals + r.behinds


\* C15: a repository write that hits an integrity violation returns a failure value and
\* does not raise: no call of the repository ends with IntegrityError.
C15_IntegrityViolationsReturnFailure ==
    ret.op \in {"update_match", "replace_player_stats_for_match"}
        => ret.raised # "IntegrityError"


\* C12: a unit of work inside get_session is committed iff its body finishes without
\* raising; when the body raises, what is stored is what was stored at its last commit
\* and the exception reaches the caller; with readonly nothing is persisted; the session
\* is closed in every case.
C12_UnitOfWork ==
    \A s \in Sessions :
        (sess[s].op = "uow" /\ sess[s].pc = "done") =>
            /\ sess[s].closed
            /\ sess[s].readonly => tables = sess[s].base
            /\ sess[s].body = "raised" =>
                  /\ tables = sess[s].base
                  /\ sess[s].raised \in BodyExceptions \cup {"IntegrityError"}
            /\ (sess[s].body = "returned" /\ ~sess[s].readonly) =>
                  /\ tables = sess[s].work
                  /\ sess[s].raised = ""
            /\ (~sess[s].readonly /\ sess[s].work # sess[s].base) =>
                  ((tables = sess[s].work) <=> (sess[s].body = "returned"))

\* a body that added a match and raised: the match is not stored; and one that finished
C12_Witness ==
    /\ sess[1].op = "uow" /\ sess[1].pc = "done"
    /\ sess[1].body = "raised" /\ sess[1].raised = "ValueError"
    /\ sess[1].work # sess[1].base
    /\ tables = sess[1].base
    /\ DOMAIN tables.matches = {1}


-----------------------------------------------------------------------------
(* Claims about the sessions, checked under SpecTx and SpecConc *)

\* the rows a call stores for stats_rows: the name trimmed and cut to 80 characters,
\* "Inconnu" when there is none, the points recomputed
C13_Rows(stats_rows) ==
    [i \in DOMAIN stats_rows |->
        LET r == stats_rows[i]
            name == IF r.player_name = NoneStr THEN "" ELSE Strip(r.player_name)
        IN [player_id |-> r.player_id,
            player_name |-> IF name = "" THEN "Inconnu"
                            ELSE IF Len(name) > 80 THEN LongNameCut ELSE name,
            goals |-> r.goals, behinds |-> r.behinds,
            points |-> 6 * r.goals + r.behinds]]

\* C13: replace_player_stats_for_match is all-or-nothing: while the call runs the stored
\* rows of the match are the old ones; once it has returned True they are exactly the
\* rows built from stats_rows; once it has returned False or raised, nothing has changed.
C13_AllOrNothing ==
    \A s \in Sessions :
        sess[s].op = "replace" =>
            LET match_id == sess[s].match_id
                old == sess[s].base.player_stats[match_id]
                new == C13_Rows(sess[s].stats_rows)
                now == tables.player_stats[match_id]
            IN /\ sess[s].pc \in {"delete", "commit"} => now = old
               /\ sess[s].pc = "done" =>
                     /\ now = old \/ now = new
                     /\ sess[s].value => (now = new /\ sess[s].raised = "")
                     /\ ~sess[s].value => tables = sess[s].base

\* the DELETE removed the stored row, the flush failed on the two rows of the same name,
\* and the stored row is still there
C13_Witness ==
    /\ sess[1].op = "replace" /\ sess[1].pc = "done"
    /\ sess[1].deleted
    /\ sess[1].raised = "IntegrityError"
    /\ tables.player_stats[sess[1].match_id] # <<>>
    /\ tables = sess[1].base

\* the points a call gives the total it was asked to recompute
C14_TotalOf(s) == SumSeq([i \in DOMAIN sess[s].stats_rows |->
                            6 * sess[s].stats_rows[i].goals + sess[s].stats_rows[i].behinds])

\* the stored rows and totals of the match are those of the call of session s
C14_IsCallOf(s) ==
    LET match_id == sess[s].match_id
    IN /\ tables.player_stats[match_id] = C13_Rows(sess[s].stats_rows)
       /\ sess[s].side = "home" => tables.matches[match_id].total_home_points = C14_TotalOf(s)

\* C14: when two sessions have each committed a replace_player_stats_for_match on the
\* same match, in whatever order their statements ran, the stored rows of the match are
\* exactly the list of one of the two calls and the totals are those of that call.
C14_OneCallWins ==
    (/\ \A s \in Sessions : sess[s].op = "replace" /\ sess[s].pc = "done" /\ sess[s].value
     /\ sess[1].match_id = sess[2].match_id)
    => \E s \in Sessions : C14_IsCallOf(s)

\* C16: every stored quarter and every stored player-stat row carries the id of a
\* stored match; once a match is deleted, by delete_match or by delete_all_matches, no
\* row carries its id.
C16_ChildrenHaveAMatch ==
    \A id \in MatchIds :
        id \notin DOMAIN tables.matches =>
            (tables.quarters[id] = <<>> /\ tables.player_stats[id] = <<>>)

\* delete_all_matches removed two matches, the second of which had a quarter and a
\* player-stat row: nothing is left
C16_Witness ==
    /\ ret.op = "delete_all_matches" /\ ret.value = 2
    /\ tables = NoTables

-----------------------------------------------------------------------------
(* Claims about the pages, checked under SpecPages *)

\* the buttons of the actions that write: save match, edit match fields, replace player
\* stats, admin create/edit/delete of a user, profile team or password change
StateChanging ==
    {"save_match", "update_match", "save_player_stats", "admin_create", "admin_team",
     "admin_flag", "admin_password", "admin_delete", "profil_team", "profil_password"}

\* C17: a state-changing action calls the repository or the service only if the token
\* submitted with it is non-empty and equal to the session's csrf_token; with a missing
\* or different token nothing is called. The delete button of admin.py submits no
\* token and calls delete_user_by_id.
C17_SubmittedTokenGatesTheCall ==
    (st.last.clicked \in StateChanging /\ st.last.called # <<>>)
        => check_csrf(st.last.submitted, st.last.expected)

-----------------------------------------------------------------------------
(* Claims about the point computations, checked under SpecScore *)

\* C21: for non-negative goals g and behinds b, points_of(g, b) is 6*g + b, and
\* calc_points and _recompute_points return the same value for the same arguments
C21_PointsAgree ==
    vout.fn \in {"points_of", "calc_points", "_recompute_points"} =>
        /\ vout.value = 6 * vout.goals + vout.behinds
        /\ points_of(vout.goals, vout.behinds) = 6 * vout.goals + vout.behinds
        /\ calc_points(vout.goals, vout.behinds) = points_of(vout.goals, vout.behinds)
        /\ _recompute_points(vout.goals, vout.behinds) = points_of(vout.goals, vout.behinds)

\* calc_points has been applied to a score with goals and behinds that differ
C21_Witness ==
    /\ vout.fn = "calc_points"
    /\ vout.goals = 2 /\ vout.behinds = 3
    /\ vout.value = 15

-----------------------------------------------------------------------------
(* Claims about the readers of the matches repository, checked under Spec *)

\* callers that are not admin and have no team: no user context, a missing, an empty
\* and a blank team_name
C22_NoTeamCallers == {NoCtx, Ctx(FALSE, NoneStr), Ctx(FALSE, ""), Ctx(FALSE, "  ")}

\* every read that goes through _apply_user_filter or _authorized_for_match is empty
C22_FilteredReads(u) ==
    /\ \A id \in MatchIds :
          /\ get_match(matches, id, u) = <<>>
          /\ get_quarters_in_match(matches, id, u) = <<>>
          /\ get_player_stats_in_match(matches, id, u) = <<>>
    /\ \A limit \in C7_Limits : list_matches(matches, limit, u) = <<>>
    /\ get_latest_match(matches, u) = <<>>
    /\ get_earliest_match(matches, u) = <<>>
    /\ list_all_seasons(matches, u) = {}
    /\ count_matches(matches, u) = 0
    /\ count_all_matches(matches, u) = 0
    /\ \A season_id \in C7_Seasons :
          /\ list_matches_by_season(matches, season_id, u) = <<>>
          /\ count_matches_in_season(matches, season_id, u) = 0
    /\ \A d1, d2 \in C7_Dates : get_matches_in_date_range(matches, d1, d2, u) = <<>>
    /\ \A player_id \in C7_Players :
          /\ get_matches_for_player(matches, player_id, u) = <<>>
          /\ \A season_id \in C7_Seasons :
                get_matches_for_player_in_season(matches, player_id, season_id, u) = <<>>
          /\ \A column \in C7_Columns :
                /\ get_total_for_player(matches, column, player_id, u) = 0
                /\ \A season_id \in C7_Seasons :
                      get_total_for_player_in_season(matches, column, player_id, season_id, u)
                          = 0

C22_TeamRead(u) ==
    \A team_name \in C7_Teams \cup {NoneStr, ""}, limit \in C7_Limits :
        list_matches_for_team(matches, team_name, limit, u) = <<>>

\* C22: for a caller that is not an admin and has no team, every read operation of the
\* matches repository, list_matches_for_team with any requested team included, returns
\* no match. list_matches_for_team falls back on the requested team and returns its
\* matches.
C22_NoTeamNoAccess ==
    \A u \in C22_NoTeamCallers : C22_FilteredReads(u) /\ C22_TeamRead(u)

-----------------------------------------------------------------------------
(* Claims about the users repository, checked under SpecUsers *)

\* the row a call names, by its id or by its normalised email; 0 when there is none
TargetOf(db, call) ==
    IF call.op \in {"set_admin_flag", "delete_user_by_id"}
    THEN IF call.id \in DOMAIN db THEN call.id ELSE 0
    ELSE ByEmail(db, _norm_email(call.email).v)

\* C23: after any sequence of create_user, set_admin_flag and verify_password_by_email
\* calls every stored admin has the email ADMIN_EMAIL, and set_admin_flag(user_id, True)
\* on another account leaves it non-admin
C23_OnlyAdminEmailIsAdmin ==
    /\ \A id \in DOMAIN users : users[id].is_admin => users[id].email = ADMIN_EMAIL
    /\ (ret.op = "set_admin_flag" /\ ret.flag /\ ret.id \in DOMAIN users
           /\ users[ret.id].email # ADMIN_EMAIL) => ~users[ret.id].is_admin

\* an admin has asked for the flag on another account, and the call returned True
C23_Witness ==
    /\ ret.op = "set_admin_flag" /\ ret.flag /\ ret.ctx.is_admin
    /\ ret.value = TRUE
    /\ ret.id \in DOMAIN users
    /\ users[ret.id].email = "bob@club.fr"
    /\ ~users[ret.id].is_admin

C24_Step ==
    \A id \in DOMAIN users :
        (users[id].email = ADMIN_EMAIL
           /\ ret'.op \in {"delete_user_by_id", "delete_user_by_email", "set_admin_flag"})
        => /\ id \in DOMAIN users'
           /\ users'[id].email = ADMIN_EMAIL
           /\ users[id].is_admin => users'[id].is_admin

\* C24: no delete_user_by_id, delete_user_by_email or set_admin_flag call, by any
\* caller, deletes the user whose email is ADMIN_EMAIL or turns its is_admin flag off
C24_RootAdminIsProtected == [][C24_Step]_vars

\* an admin has asked to delete the admin account by its email and to take its flag
\* away; the account is still there, an admin
C24_Witness ==
    /\ ret.op \in {"delete_user_by_email", "set_admin_flag"}
    /\ ret.ctx.is_admin
    /\ TargetOf(users, ret) # 0
    /\ users[TargetOf(users, ret)].email = ADMIN_EMAIL
    /\ users[TargetOf(users, ret)].is_admin
    /\ ret.op = "delete_user_by_email" => ret.value = FALSE
    /\ ret.op = "set_admin_flag" => ~ret.flag

C25_Step ==
    /\ \A id \in DOMAIN users \cap DOMAIN users' :
          (users[id].email = ADMIN_EMAIL /\ ~users[id].is_admin /\ users'[id].is_admin)
          => _is_admin_ctx(ret'.ctx)
    /\ (ret'.op = "verify_password_by_email" /\ ret'.value.ok
           /\ ret'.value.user[1].is_admin)
       => users[ret'.value.user[1].id].is_admin

\* C25: an account with the email ADMIN_EMAIL that is stored with is_admin false gets
\* its flag turned on only by a call of an admin caller, and a login of it returns an
\* admin only when the flag was already stored. verify_password_by_email turns the flag
\* on by itself.
C25_AdminOnlyByFirstOrAdmin == [][C25_Step]_vars


C26_Writers == {"set_password", "update_user_team", "delete_user_by_id", "delete_user_by_email"}

\* the caller is an admin or the user the call names
C26_Allowed(call, target) ==
    target # 0 /\ (_is_admin_ctx(call.ctx) \/ _is_self_ctx(call.ctx, target))

\* a change touches the named row only, and only for an allowed caller
C26_ChangeIsAllowed(target) ==
    users' # users =>
        /\ C26_Allowed(ret', target)
        /\ \A id \in DOMAIN users \ {target} : id \in DOMAIN users' /\ users'[id] = users[id]
        /\ DOMAIN users' \subseteq DOMAIN users

\* the readers return nothing to a caller that is not an admin
C26_Readers ==
    \A caller_ctx \in UserCallers :
        ~_is_admin_ctx(caller_ctx) =>
            /\ list_users(users, caller_ctx) = <<>>
            /\ \A user_id \in UserIds : get_user_by_id(users, user_id, caller_ctx) = <<>>
            /\ \A email \in UserEmails :
                  /\ get_user_by_email(users, email, caller_ctx).value = <<>>
                  /\ get_user_by_email(users, email, caller_ctx).raised = ""

C26_OriginalStep ==
    ret'.op \in C26_Writers =>
        LET target == TargetOf(users, ret')
        IN /\ C26_ChangeIsAllowed(target)
           /\ ~C26_Allowed(ret', target) =>
                 (ret'.value = FALSE /\ ret'.raised = "" /\ users' = users)

C26_AmendedStep ==
    ret'.op \in C26_Writers =>
        LET target == TargetOf(users, ret')
        IN /\ C26_ChangeIsAllowed(target)
           /\ ~C26_Allowed(ret', target) =>
                 /\ users' = users
                 /\ ret'.value = FALSE
                 /\ ret'.raised \in {"", "ValueError"}
                 /\ ret'.raised = "ValueError" =>
                       \/ ~_norm_email(ret'.email).ok /\ ret'.op # "delete_user_by_id"
                       \/ ret'.op = "set_password"
           /\ (ret'.raised = "" /\ ret'.value = FALSE) => users' = users

-----------------------------------------------------------------------------
(* Claims about the authentication service, checked under SpecAuth *)

\* the failures recorded during the last WINDOW seconds
C27_Recent == SelectSeq(st.auth_fails, LAMBDA t : st.now - t < WINDOW)

C27_Step ==
    st'.last.op = "login" =>
        IF Len(C27_Recent) >= LIMIT
        THEN /\ st'.last.value = FALSE
             /\ ~st'.last.verified
             /\ st'.auth_fails = C27_Recent
             /\ st'.auth_user = st.auth_user
             /\ users' = users
        ELSE /\ st'.last.verified
             /\ (st'.last.raised = "" /\ ~st'.last.ok) =>
                   (st'.last.value = FALSE /\ st'.auth_fails = Append(C27_Recent, st.now))
             /\ st'.last.ok =>
                   (st'.last.value = TRUE /\ FAIL_KEY \notin st'.keys /\ st'.auth_fails = <<>>)

\* C27: with 5 failures recorded during the last 300 seconds login returns False without
\* verifying the password and without recording a failure; with fewer it verifies, a
\* failed verification adds one record and a successful login clears the record
C27_BruteForceLimit == [][C27_Step]_vars

\* a login with the right password has been refused while 5 failures were recorded
C27_Witness ==
    /\ st.last.op = "login"
    /\ st.last.args = <<"bob@club.fr", "motdepasse2">>
    /\ st.last.value = FALSE /\ ~st.last.verified
    /\ Len(st.auth_fails) = LIMIT
    /\ \E i \in DOMAIN st.auth_fails : st.auth_fails[i] < st.now

C28_Step ==
    /\ st'.last.op = "current_user" =>
          IF SESSION_KEY \in st.keys
          THEN IF st.now - st.auth_last_seen > SESSION_TTL
               THEN st'.keys \cap AuthKeys = {} /\ st'.last.value = <<>>
               ELSE /\ st'.last.value = st.auth_user
                    /\ st'.last.value # <<>>
                    /\ st'.auth_last_seen = st.now
                    /\ SESSION_KEY \in st'.keys
          ELSE st'.last.value = <<>> /\ st'.keys = st.keys
    /\ st'.last.op = "logout" => st'.keys \cap AuthKeys = {}
    /\ (SESSION_KEY \notin st.keys /\ SESSION_KEY \in st'.keys) =>
          (st'.last.op = "login" /\ st'.last.value = TRUE)
    /\ (st'.last.op = "login" /\ st'.last.value = TRUE) =>
          /\ {SESSION_KEY, LAST_SEEN_KEY} \subseteq st'.keys
          /\ st'.auth_user # <<>>
          /\ st'.auth_user[1].email = StripLower(st'.last.args[1])
          /\ st'.auth_last_seen = st.now

\* C28: after a successful login current_user returns the user and refreshes the
\* last-seen time; more than SESSION_TTL after the last-seen time it removes the four keys
\* and returns no user; logout removes the four keys, and no user is returned until the
\* next successful login
C28_SessionLifetime == [][C28_Step]_vars

\* a session has expired at a current_user call
C28_Witness ==
    /\ st.last.op = "current_user"
    /\ st.last.raised = "StopException"
    /\ st.keys \cap AuthKeys = {}

-----------------------------------------------------------------------------
(* Claims about the players repository, checked under SpecPlayers *)

\* the names a list asks for, as upsert_players stores them
WantedNames(names) ==
    LET clean == CleanNames(names)
    IN {RepoSafeStr(clean[i], NAME_MAX) : i \in DOMAIN clean} \ {NoneStr}

\* what the call upsert_players(names, user_ctx) on the table before must have done:
\* it returned the number of missing names, every name asked for is one active row
\* of the club, every other row is as it was, no (club, name) occurs twice, and the
\* same call once more inserts nothing and returns 0
UpsertedOnce(before, after, names, user_ctx, value, raised) ==
    LET club == RepoSafeStr(_user_team_name(user_ctx), CLUB_MAX)
        wanted == WantedNames(names)
        missing == {n \in wanted : ByClubName(before, club, n) = 0}
    IN /\ raised = ""
       /\ value = Cardinality(missing)
       /\ Cardinality(DOMAIN after) = Cardinality(DOMAIN before) + Cardinality(missing)
       /\ DOMAIN before \subseteq DOMAIN after
       /\ \A n \in wanted :
              LET id == ByClubName(after, club, n)
              IN id # 0 /\ after[id].active /\ (id \in DOMAIN before <=> n \notin missing)
       /\ \A id \in DOMAIN before :
              IF before[id].club = club /\ before[id].name \in wanted
              THEN after[id] = [before[id] EXCEPT !.active = TRUE]
              ELSE after[id] = before[id]
       /\ PlayersUnique(after)
       /\ upsert_players(after, names, user_ctx) = Outcome(after, 0, "")

C29_WithTeam(call) ==
    /\ call.op = "upsert_players"
    /\ RepoSafeStr(_user_team_name(call.ctx), CLUB_MAX) # NoneStr

\* C29: upsert_players is idempotent and adds only the missing players: for every
\* list of names, a list that holds the same name more than once included, and every
\* caller with a team, the call inserts one active player per name the club does not
\* have yet, reactivates an inactive player instead of inserting a second row, returns
\* the number of rows inserted, leaves no two players with the same (club, name), and
\* the same call once more inserts nothing and returns 0.
C29_Step ==
    C29_WithTeam(ret')
        => UpsertedOnce(players, players', ret'.names, ret'.ctx, ret'.value, ret'.raised)
C29_UpsertIsIdempotent == [][C29_Step]_vars

\* the same, for the lists in which no name occurs twice once stripped
C29_DistinctStep ==
    C29_WithTeam(ret') /\ Cardinality(WantedNames(ret'.names)) = Len(CleanNames(ret'.names))
        => UpsertedOnce(players, players', ret'.names, ret'.ctx, ret'.value, ret'.raised)
C29_DistinctNamesUpsert == [][C29_DistinctStep]_vars

\* a call with the same missing name twice has raised the error of the unique constraint
C29_DuplicateRaised ==
    /\ ret.op = "upsert_players"
    /\ ret.names = <<"lucas", " lucas ">>
    /\ ret.raised = "IntegrityError"
    /\ ret.before = players

\* a call has reactivated an inactive player and inserted a missing one
C29_Reactivated ==
    /\ ret.op = "upsert_players"
    /\ ret.raised = ""
    /\ ret.value = 1
    /\ \E id \in DOMAIN ret.before : ~ret.before[id].active /\ players[id].active

-----------------------------------------------------------------------------
(* Claims about the profile page, checked under SpecPages *)

ProfilButtons == {"profil_team", "profil_password"}

\* C30: on the profile page a logged-in user can change their own data: when the team
\* form is submitted in a session that holds a csrf_token, the CSRF check passes and
\* update_user_team is called (and set_password, for the password form submitted with
\* the right current password and a valid new one).
C30_ProfileFormsCallTheRepository ==
    (st.last.clicked = "profil_team" /\ st.last.expected # NoneStr)
        => /\ check_csrf(st.last.submitted, st.last.expected)
           /\ st.last.called = <<"update_user_team">>

\* what the page does instead: the handlers of both forms read a key no widget of the
\* page writes, the check fails and nothing is called, however the form was filled in
C30_ProfilHandlersNeverCall ==
    st.last.clicked \in ProfilButtons
        => /\ st.last.submitted = NoneStr
           /\ ~check_csrf(st.last.submitted, st.last.expected)
           /\ st.last.called = <<>>

\* both forms have been submitted in a session that holds a csrf_token
C30_TeamSubmitted ==
    st.auth /\ st.last.clicked = "profil_team" /\ st.last.expected \in Tokens
C30_PasswordSubmitted ==
    st.auth /\ st.last.clicked = "profil_password" /\ st.last.expected \in Tokens

=============================================================================
